---- MODULE Spec2Model ----
(***************************************************************************)
(* The tool-calling agent of services/agent_orchestrator/tool_agent.py:    *)
(* ToolCallingAgent.run_issue_task (the step loop), _llm_chat (the         *)
(* Anthropic adapter), _dispatch_tool (name -> MCPClient call) and         *)
(* _extract_summary_from_text (the final summary parser), with MCPClient   *)
(* of services/agent_orchestrator/mcp_client.py behind the dispatcher.     *)
(*                                                                         *)
(* Representation of Python values                                         *)
(*   str (may hold newlines)  a non-empty sequence of lines, the result of *)
(*                            s.split("\n"); "" is <<"">>                  *)
(*   None where a str or a list is expected   <<>>                         *)
(*   dict                     a function from keys (strings) to values,    *)
(*                            each value written as its JSON literal       *)
(*                            ("\"main\"", "7", "null")                    *)
(*   a JSON value that is no dict, where a dict is expected               *)
(*                            NonDict(literal), a function with the one   *)
(*                            key NonDictKey                              *)
(*   a raised exception       a record with kind = "raise"                 *)
(***************************************************************************)
EXTENDS Integers, Sequences, FiniteSets, TLC

VARIABLES
    max_steps,          \* self.max_steps, fixed for the run
    tool_uses,          \* the tool_use blocks the provider may emit in this run
    pc,                 \* position in run_issue_task
    step,               \* the for loop's counter
    messages,           \* the Conversation (local `messages`)
    message,            \* local `message`: the last adapter result
    idx,                \* position of the inner `for tool_call in tool_calls`
    last_tool_results,  \* local `last_tool_results`
    outcome,            \* the returned summary
    exc,                \* the exception that escaped run_issue_task
    request,            \* create_args of the last messages.create call
    llm_calls,          \* history: number of _llm_chat invocations
    dispatch_log,       \* history: ids of tool calls handed to _dispatch_tool
    mcp_log,            \* history: MCPClient._post calls made
    issued,             \* history: tool_use blocks the provider has issued
    received,           \* history: the tool_use blocks received, in order
    d_name,             \* dispatcher harness: the tool name under test
    d_args,             \* dispatcher harness: the arguments under test
    d_exec,             \* dispatcher harness: executor behaviour
    d_out,              \* dispatcher harness: what _dispatch_tool did
    e_in,               \* extractor harness: the final message under test
    e_out,              \* extractor harness: what the extraction did
    a_messages,         \* adapter harness: the Conversation handed to _llm_chat
    a_out,              \* adapter harness: what _llm_chat did
    runs,               \* concurrent runs: the locals of each run_issue_task call
    scripts,            \* concurrent runs: what provider and executor answer each
    ALLOWED_REPOS,      \* MCP server: the module global ALLOWED_REPOS
    DRY_RUN,            \* MCP server: the module global DRY_RUN
    s_req,              \* MCP server: the request being answered
    s_resp,             \* MCP server: the HTTP response to it
    workdirs,           \* MCP server: directories made by tempfile.mkdtemp
    clones,             \* MCP server history: Repo.clone_from calls
    commits,            \* MCP server history: repo.index.commit calls
    pushes,             \* MCP server history: repo.git.push calls
    github_posts,       \* MCP server history: POSTs sent to api.github.com
    pulls,              \* MCP server history: pull requests GitHub opened
    served,             \* MCP server history: number of requests answered
    w_pc,               \* ticket worker: position in main's loop
    w_msg,              \* ticket worker: local `msg`
    w_task,             \* ticket worker: local `task`
    w_result,           \* ticket worker: local `result`
    w_empty,            \* ticket worker: the last receive_ticket returned None
    w_received,         \* ticket worker history: messages received
    w_parsed,           \* ticket worker history: receipts parse_ticket returned for
    w_ran,              \* ticket worker history: receipts run_issue_task returned for
    w_raised,           \* ticket worker history: receipts whose processing raised
    w_delete_calls,     \* ticket worker history: receipts passed to delete_ticket
    w_deleted,          \* ticket worker history: receipts SQS deleted
    y_script,           \* project sync: which script runs ("classic" or "v2")
    y_columns,          \* project sync: the classic board's columns and cards
    y_items,            \* project sync: the Projects V2 board's items
    y_pc,               \* project sync: position in sync_project_to_sqs
    y_col,              \* project sync: index of `col` in `columns`
    y_cards,            \* project sync: local `cards` (classic) or `items` (v2)
    y_pos,              \* project sync: index of `card` or `item`
    y_sent              \* project sync history: sqs.send_message calls

vars == <<max_steps, tool_uses, pc, step, messages, message, idx,
          last_tool_results, outcome, exc, request, llm_calls, dispatch_log,
          mcp_log, issued, received, d_name, d_args, d_exec, d_out,
          e_in, e_out, a_messages, a_out, runs, scripts,
          ALLOWED_REPOS, DRY_RUN, s_req, s_resp, workdirs, clones, commits,
          pushes, github_posts, pulls, served,
          w_pc, w_msg, w_task, w_result, w_empty, w_received, w_parsed, w_ran,
          w_raised, w_delete_calls, w_deleted,
          y_script, y_columns, y_items, y_pc, y_col, y_cards, y_pos, y_sent>>

runVars == <<max_steps, tool_uses, pc, step, messages, message, idx,
             last_tool_results, outcome, exc, request, llm_calls,
             dispatch_log, mcp_log, issued, received>>

dispatchVars == <<d_name, d_args, d_exec, d_out>>

extractVars == <<e_in, e_out>>

adapterVars == <<a_messages, a_out>>

concVars == <<runs, scripts>>

agentVars == <<runVars, dispatchVars, extractVars, adapterVars, concVars>>

serverVars == <<ALLOWED_REPOS, DRY_RUN, s_req, s_resp, workdirs, clones,
                commits, pushes, github_posts, pulls, served>>

workerVars == <<w_pc, w_msg, w_task, w_result, w_empty, w_received, w_parsed,
                w_ran, w_raised, w_delete_calls, w_deleted>>

syncVars == <<y_script, y_columns, y_items, y_pc, y_col, y_cards, y_pos, y_sent>>

serviceVars == <<serverVars, workerVars, syncVars>>

harnessVars == <<dispatchVars, extractVars, adapterVars, concVars,
                 serviceVars>>

(***************************************************************************)
(* Bounds of the explored input space.                                     *)
(***************************************************************************)
\* largest max_steps a run is configured with
MaxSteps == 2
\* largest number of tool_use blocks in one provider response
MaxBatch == 3
\* largest number of tool_use blocks the provider issues during one run
MaxCalls == 3
\* largest number of messages after the two initial ones in a Conversation
\* handed to _llm_chat on its own
MaxTail == 3

\* most cards (classic) or items (v2) on an exhaustively drawn board
MaxCards == 2

\* params={"per_page": 100}: the size of the one page get_column_cards reads
PerPage == 100

\* most SQS messages the ticket worker receives in one behaviour
MaxTickets == 2

\* most requests the MCP server answers in one behaviour
MaxRequests == 3

(***************************************************************************)
(* Python values.                                                          *)
(***************************************************************************)
EmptyDict == [k \in {} |-> ""]

NoneLit == "null"

StrLit(s) == "\"" \o s \o "\""

\* "\n".join(parts) of strings in the split representation
RECURSIVE JoinLines(_)
JoinLines(parts) ==
    IF parts = <<>> THEN <<>>
    ELSE Head(parts) \o JoinLines(Tail(parts))

\* the JSON literal of a (multi-line) str: lines joined by the escape \n
RECURSIVE TextBody(_)
TextBody(text) ==
    IF Len(text) = 1 THEN text[1]
    ELSE text[1] \o "\\n" \o TextBody(Tail(text))

TextLit(text) == "\"" \o TextBody(text) \o "\""

\* dict.setdefault(key, value)
SetDefault(d, key, value) ==
    IF key \in DOMAIN d THEN d ELSE d @@ (key :> value)

\* dict.get(key, default)
Get(d, key, default) ==
    IF key \in DOMAIN d THEN d[key] ELSE default

\* a list, str or number standing where a dict is expected
NonDictKey == "$value"

NonDict(lit) == (NonDictKey :> lit)

IsNonDict(d) == NonDictKey \in DOMAIN d

\* truthiness of a JSON literal: None, "", 0, false, [] and {} are falsy
Truthy(lit) == lit \notin {"null", "\"\"", "0", "false", "[]", "{}"}

(***************************************************************************)
(* json.dumps and json.loads.  dumps writes a dict as one line of text;    *)
(* loads is its inverse on the objects the model's strings can hold,       *)
(* decodes the scalar and list literals to a non-dict value, and raises    *)
(* JSONDecodeError on every other line.                                    *)
(***************************************************************************)
KeyOrder ==
    <<"status", "branch", "pr_number", "pr_url", "details", "raw_response",
      "error", "files", "text", "workdir", "trace_id", "diff",
      "bytes_changed", "commit_sha", "remote_ref", "html_url", "url",
      "glob_pattern", "glob", "path", "new_text", "base", "new_branch",
      "message", "repo_url", "title", "body", "head_branch", "base_branch">>

RECURSIVE DumpItems(_, _, _)
DumpItems(d, i, first) ==
    IF i > Len(KeyOrder) THEN ""
    ELSE IF KeyOrder[i] \in DOMAIN d
         THEN (IF first THEN "" ELSE ", ")
              \o StrLit(KeyOrder[i]) \o ": " \o d[KeyOrder[i]]
              \o DumpItems(d, i + 1, FALSE)
         ELSE DumpItems(d, i + 1, first)

JsonDumps(d) ==
    IF IsNonDict(d) THEN d[NonDictKey]
    ELSE "{" \o DumpItems(d, 1, TRUE) \o "}"

\* objects a final summary line may hold
SumFull ==
    ("status" :> StrLit("pr_created")) @@ ("branch" :> StrLit("b1"))
    @@ ("pr_number" :> "7") @@ ("pr_url" :> StrLit("https://x/7"))

SumBadStatus == ("status" :> StrLit("done"))

SumNoStatus == ("branch" :> StrLit("b1")) @@ ("pr_number" :> "7")

SumNullStatus == ("status" :> NoneLit) @@ ("details" :> StrLit("kept"))

SummaryObjects == {SumFull, SumBadStatus, SumNoStatus, SumNullStatus, EmptyDict}

\* JSON texts that decode to something that is not a dict
JsonNonObjects == {"42", "null", "true", "\"done\"", "[1, 2]"}

(***************************************************************************)
(* What a call did: it returned a dict (value) or a non-dict (lit), or it  *)
(* raised (exc); calls are the MCPClient._post requests it made.           *)
(***************************************************************************)
Return(value, calls) ==
    [kind |-> "return", value |-> value, lit |-> "", exc |-> "", calls |-> calls]

ReturnLit(lit, calls) ==
    [kind |-> "return", value |-> EmptyDict, lit |-> lit, exc |-> "", calls |-> calls]

Raise(e, calls) ==
    [kind |-> "raise", value |-> EmptyDict, lit |-> "", exc |-> e, calls |-> calls]

(***************************************************************************)
(* The MCP server's answers (services/mcp-server/app.py response models),  *)
(* as MCPClient sees them when the request succeeds.                       *)
(***************************************************************************)
ServerResponse(path, payload) ==
    CASE path = "/repo/clone" ->
            ("workdir" :> StrLit("/tmp/mcp-1"))
            @@ ("branch" :> Get(payload, "branch", StrLit("main")))
            @@ ("trace_id" :> StrLit("t1"))
      [] path = "/repo/find_files" -> ("files" :> "[\"README.md\"]")
      [] path = "/repo/read_file" -> ("text" :> StrLit("hello"))
      [] path = "/repo/write_file" ->
            ("diff" :> StrLit("+hello")) @@ ("bytes_changed" :> "5")
      [] path = "/git/create_branch" -> ("status" :> StrLit("ok"))
      [] path = "/git/commit_push" ->
            ("commit_sha" :> StrLit("abc123"))
            @@ ("remote_ref" :> StrLit("origin/b1"))
      [] path = "/github/create_pr" ->
            ("pr_number" :> "7") @@ ("html_url" :> StrLit("https://x/7"))
      [] OTHER -> EmptyDict

\* how the Remote Operation Executor behaves on one request
ExecBehaviours == {"ok", "fault"}

\* MCPClient._post: raise_for_status raises on a non-2xx answer
Post(path, payload, exec) ==
    LET call == [path |-> path, payload |-> payload] IN
    IF exec = "fault"
    THEN Raise("HTTPError: " \o path, <<call>>)
    ELSE Return(ServerResponse(path, payload), <<call>>)

mcp_clone_repo(url, branch, exec) ==
    Post("/repo/clone",
         IF Truthy(branch) THEN ("url" :> url) @@ ("branch" :> branch)
         ELSE ("url" :> url),
         exec)

mcp_find_files(workdir, glob_pattern, exec) ==
    LET data == Post("/repo/find_files",
                     ("workdir" :> workdir) @@ ("glob" :> glob_pattern), exec)
    IN IF data.kind = "raise" THEN data
       ELSE ReturnLit(Get(data.value, "files", "[]"), data.calls)

mcp_read_file(workdir, path, exec) ==
    LET data == Post("/repo/read_file",
                     ("workdir" :> workdir) @@ ("path" :> path), exec)
    IN IF data.kind = "raise" THEN data
       ELSE IF "text" \in DOMAIN data.value
            THEN ReturnLit(data.value["text"], data.calls)
            ELSE Raise("KeyError: 'text'", data.calls)

mcp_write_file(workdir, path, new_text, exec) ==
    Post("/repo/write_file",
         ("workdir" :> workdir) @@ ("path" :> path) @@ ("new_text" :> new_text),
         exec)

mcp_create_branch(workdir, base, new_branch, exec) ==
    Post("/git/create_branch",
         ("workdir" :> workdir) @@ ("base" :> base)
         @@ ("new_branch" :> new_branch),
         exec)

mcp_commit_and_push(workdir, branch, msg, exec) ==
    Post("/git/commit_push",
         ("workdir" :> workdir) @@ ("branch" :> branch) @@ ("message" :> msg),
         exec)

mcp_create_pr(repo_url, title, body, head_branch, base_branch, exec) ==
    Post("/github/create_pr",
         ("repo_url" :> repo_url) @@ ("title" :> title) @@ ("body" :> body)
         @@ ("head_branch" :> head_branch) @@ ("base_branch" :> base_branch),
         exec)

(***************************************************************************)
(* _tool_definitions: the schema advertised to the provider.               *)
(***************************************************************************)
tool_definitions ==
    << [name |-> "clone_repo", properties |-> {"url", "branch"},
        required |-> {"url", "branch"}],
       [name |-> "find_files", properties |-> {"workdir", "glob_pattern"},
        required |-> {"workdir", "glob_pattern"}],
       [name |-> "read_file", properties |-> {"workdir", "path"},
        required |-> {"workdir", "path"}],
       [name |-> "write_file", properties |-> {"workdir", "path", "new_text"},
        required |-> {"workdir", "path", "new_text"}],
       [name |-> "create_branch",
        properties |-> {"workdir", "base", "new_branch"},
        required |-> {"workdir", "base", "new_branch"}],
       [name |-> "commit_and_push",
        properties |-> {"workdir", "branch", "message"},
        required |-> {"workdir", "branch", "message"}],
       [name |-> "create_pr",
        properties |-> {"repo_url", "title", "body", "head_branch", "base_branch"},
        required |-> {"repo_url", "title", "head_branch", "base_branch"}] >>

ToolNames == {tool_definitions[i].name : i \in DOMAIN tool_definitions}

ToolDef(name) ==
    tool_definitions[CHOOSE i \in DOMAIN tool_definitions :
                        tool_definitions[i].name = name]

(***************************************************************************)
(* _dispatch_tool.  args["k"] raises KeyError when k is absent; the        *)
(* keyword arguments of a call are evaluated left to right, before the     *)
(* MCPClient method is entered.                                            *)
(***************************************************************************)
KeyError(key) == Raise("KeyError: '" \o key \o "'", <<>>)

RECURSIVE FirstMissing(_, _)
FirstMissing(keys, args) ==
    IF keys = <<>> THEN ""
    ELSE IF Head(keys) \notin DOMAIN args THEN Head(keys)
    ELSE FirstMissing(Tail(keys), args)

\* the keys _dispatch_tool reads with args[...], in evaluation order
Subscripted(name) ==
    CASE name = "clone_repo" -> <<"url">>
      [] name = "find_files" -> <<"workdir", "glob_pattern">>
      [] name = "read_file" -> <<"workdir", "path">>
      [] name = "write_file" -> <<"workdir", "path", "new_text">>
      [] name = "create_branch" -> <<"workdir", "base", "new_branch">>
      [] name = "commit_and_push" -> <<"workdir", "branch", "message">>
      [] name = "create_pr" ->
            <<"repo_url", "title", "head_branch", "base_branch">>
      [] OTHER -> <<>>

\* the fallback raising instead of returning
UnknownTool_raises(name) == Raise("ValueError: Unknown tool: " \o name, <<>>)

\* the fallback of _dispatch_tool
UnknownTool(name) ==
    Return(("error" :> StrLit("Unknown tool: " \o name)), <<>>)

\* the list of files returned under another key
FilesResult_rekeyed(files) == ("matches" :> files)

\* return {"files": files}
FilesResult(files) == ("files" :> files)

\* the file's text returned as it is, a bare str
TextResult_bare(text) == NonDict(text)

\* return {"text": text}
TextResult(text) == ("text" :> text)

\* the MCPClient call a registered name maps to, and the wrapping of its result
CallExecutor(name, args, exec) ==
    CASE name = "clone_repo" ->
            mcp_clone_repo(args["url"], Get(args, "branch", NoneLit), exec)
      [] name = "find_files" ->
            LET files == mcp_find_files(args["workdir"], args["glob_pattern"], exec)
            IN IF files.kind = "raise" THEN files
               ELSE Return(FilesResult(files.lit), files.calls)
      [] name = "read_file" ->
            LET text == mcp_read_file(args["workdir"], args["path"], exec)
            IN IF text.kind = "raise" THEN text
               ELSE Return(TextResult(text.lit), text.calls)
      [] name = "write_file" ->
            mcp_write_file(args["workdir"], args["path"], args["new_text"], exec)
      [] name = "create_branch" ->
            mcp_create_branch(args["workdir"], args["base"], args["new_branch"], exec)
      [] name = "commit_and_push" ->
            mcp_commit_and_push(args["workdir"], args["branch"], args["message"], exec)
      [] name = "create_pr" ->
            mcp_create_pr(args["repo_url"], args["title"],
                          Get(args, "body", StrLit("")),
                          args["head_branch"], args["base_branch"], exec)

\* _dispatch_tool without its last branch
DispatchedNames_without_create_pr ==
    {"clone_repo", "find_files", "read_file", "write_file",
     "create_branch", "commit_and_push"}

\* the names _dispatch_tool has a branch for
DispatchedNames ==
    {"clone_repo", "find_files", "read_file", "write_file",
     "create_branch", "commit_and_push", "create_pr"}

\* args[...] on a value that is no dict
NotSubscriptable == Raise("TypeError: args is not a dict", <<>>)

dispatch_tool(name, args, exec) ==
    IF name \notin DispatchedNames
    THEN UnknownTool(name)
    ELSE IF IsNonDict(args)
    THEN NotSubscriptable
    ELSE IF FirstMissing(Subscripted(name), args) # ""
         THEN KeyError(FirstMissing(Subscripted(name), args))
         ELSE CallExecutor(name, args, exec)

\* an error-tagged ToolResult: a mapping with the key "error"
ErrorTagged(r) == r.kind = "return" /\ "error" \in DOMAIN r.value

(***************************************************************************)
(* Tool inputs: every subset of a tool's declared properties, each         *)
(* property with one value.                                                *)
(***************************************************************************)
ArgValue(key) == StrLit(key \o "-v")

ArgsOver(keys) == [k \in keys |-> ArgValue(k)]

UnknownNames == {"delete_repo", "Clone_Repo", ""}

ToolInputs ==
    UNION {{ArgsOver(S) : S \in SUBSET tool_definitions[i].properties} :
              i \in DOMAIN tool_definitions}

JsonObjects == SummaryObjects \cup ToolInputs

JsonEncoded == {JsonDumps(d) : d \in JsonObjects}

JsonInverse ==
    [s \in JsonEncoded |-> CHOOSE d \in JsonObjects : JsonDumps(d) = s]

\* json.loads(s)
JsonLoads(s) ==
    IF s \in JsonEncoded THEN [kind |-> "object", obj |-> JsonInverse[s]]
    ELSE IF s \in JsonNonObjects THEN [kind |-> "other", obj |-> NonDict(s)]
    ELSE [kind |-> "JSONDecodeError", obj |-> EmptyDict]

(***************************************************************************)
(* _extract_summary_from_text.                                             *)
(***************************************************************************)
BlankLines == {"", " ", "   "}

ProseLines == {"Done.", "not json", "All good", "{\"status\": "}

LineCores == JsonEncoded \cup JsonNonObjects \cup ProseLines

\* a line with whitespace around its text
Padded(core) == "  " \o core \o " "

PaddedLines == {Padded(c) : c \in LineCores}

PaddedInverse ==
    [p \in PaddedLines |-> CHOOSE c \in LineCores : Padded(c) = p]

\* str.strip()
Strip(ln) ==
    IF ln \in BlankLines THEN ""
    ELSE IF ln \in PaddedLines THEN PaddedInverse[ln]
    ELSE ln

\* str.splitlines() of a str given as s.split("\n"): a final line break
\* opens no further line
SplitLines(content) ==
    IF content[Len(content)] = ""
    THEN SubSeq(content, 1, Len(content) - 1)
    ELSE content

\* a blank test that forgets to strip
NonBlank_unstripped(ln) == ln # ""

\* ln.strip() is truthy
NonBlank(ln) == Strip(ln) # ""

\* raw_response holding only the line that failed to parse
RawResponse_last_line(content, last) == TextLit(<<last>>)

\* "raw_response": content
RawResponse(content, last) == TextLit(content)

\* setdefault that overwrites the key
SetDefault_overwrite(d, key, value) ==
    [k \in DOMAIN d \cup {key} |-> IF k = key THEN value ELSE d[k]]

\* data.setdefault(key, value) on the decoded summary
SummaryDefault(d, key, value) == SetDefault(d, key, value)

extract_summary_from_text(content) ==
    LET lines == SelectSeq(SplitLines(content), NonBlank) IN
    IF lines = <<>>
    THEN Return(("status" :> StrLit("no_action"))
                @@ ("details" :> StrLit("Empty final response from LLM.")), <<>>)
    ELSE LET last == Strip(lines[Len(lines)])
             data == JsonLoads(last)
         IN CASE data.kind = "JSONDecodeError" ->
                    Return(("status" :> StrLit("no_action"))
                           @@ ("details" :> StrLit("Could not parse final JSON summary."))
                           @@ ("raw_response" :> RawResponse(content, last)), <<>>)
              [] data.kind = "other" ->
                    \* data.setdefault on a value that is no dict
                    Raise("AttributeError: setdefault", <<>>)
              [] data.kind = "object" ->
                    Return(SummaryDefault(SummaryDefault(SummaryDefault(data.obj,
                               "status", StrLit("no_action")),
                               "pr_number", NoneLit),
                               "pr_url", NoneLit), <<>>)

(***************************************************************************)
(* Messages of the Conversation.  A Python message dict is a record with   *)
(* all the keys any role uses; a key the dict lacks holds "" or <<>>.      *)
(***************************************************************************)
Msg(role, content, tool_calls, tool_call_id, name) ==
    [role |-> role, content |-> content, tool_calls |-> tool_calls,
     tool_call_id |-> tool_call_id, name |-> name]

SystemPrompt == <<"You are an autonomous coding agent", "TEST MODE DIRECTIVE:">>

UserPrompt == <<"Repository URL: https://github.com/o/r", "Labels: (none)">>

\* the two initial messages in the other order
initial_messages_user_first ==
    << Msg("user", UserPrompt, <<>>, "", ""),
       Msg("system", SystemPrompt, <<>>, "", "") >>

\* _initial_messages(task)
initial_messages ==
    << Msg("system", SystemPrompt, <<>>, "", ""),
       Msg("user", UserPrompt, <<>>, "", "") >>

(***************************************************************************)
(* _llm_chat, outbound: Conversation -> messages.create arguments.         *)
(***************************************************************************)
Block(type, text, id, name, input, content) ==
    [type |-> type, text |-> text, id |-> id, name |-> name,
     input |-> input, content |-> content]

\* json.loads(arguments) if arguments else {}
LoadArguments(arguments) ==
    IF arguments = "" THEN [kind |-> "object", obj |-> EmptyDict]
    ELSE JsonLoads(arguments)

\* the tool_use block rebuilt without the call's arguments
ToolUseBlockOf_empty_input(tool_call) ==
    Block("tool_use", <<>>, tool_call.id, tool_call.function.name, EmptyDict, <<>>)

\* the tool_use block an assistant message's tool call becomes
ToolUseBlockOf(tool_call) ==
    Block("tool_use", <<>>, tool_call.id, tool_call.function.name,
          LoadArguments(tool_call.function.arguments).obj, <<>>)

RECURSIVE ToolUseBlocks(_)
ToolUseBlocks(tool_calls) ==
    IF tool_calls = <<>> THEN <<>>
    ELSE <<ToolUseBlockOf(Head(tool_calls))>> \o ToolUseBlocks(Tail(tool_calls))

\* msg.get("tool_call_id") or msg.get("id", ""): no message has the key "id"
ToolUseIdOf(msg) == IF msg.tool_call_id # "" THEN msg.tool_call_id ELSE ""

\* every message, the system ones included, sent as text under its role
AnthroMessage_system_inline(msg) ==
    << [role |-> msg.role,
        content |-> << Block("text", msg.content, "", "", EmptyDict, <<>>) >>] >>

\* the provider messages one Conversation message becomes
AnthroMessage(msg) ==
    CASE msg.role = "system" -> <<>>
      [] msg.role = "tool" ->
            IF ToolUseIdOf(msg) # ""
            THEN << [role |-> "user",
                     content |-> << Block("tool_result", <<>>, ToolUseIdOf(msg),
                                          "", EmptyDict, msg.content) >>] >>
            ELSE <<>>
      [] OTHER ->
            << [role |-> msg.role,
                content |->
                    (IF msg.content # <<>>
                     THEN << Block("text", msg.content, "", "", EmptyDict, <<>>) >>
                     ELSE <<>>)
                    \o (IF msg.role = "assistant"
                        THEN ToolUseBlocks(msg.tool_calls) ELSE <<>>)] >>

RECURSIVE AnthroMessages(_)
AnthroMessages(msgs) ==
    IF msgs = <<>> THEN <<>>
    ELSE AnthroMessage(Head(msgs)) \o AnthroMessages(Tail(msgs))

\* system_message: the content of the last system message, None (<<>>) without one
RECURSIVE SystemMessage(_)
SystemMessage(msgs) ==
    IF msgs = <<>> THEN <<>>
    ELSE IF msgs[Len(msgs)].role = "system" THEN msgs[Len(msgs)].content
    ELSE SystemMessage(SubSeq(msgs, 1, Len(msgs) - 1))

\* create_args; "system" is set only when system_message is truthy
CreateArgs(msgs, tools) ==
    [model |-> "claude-3-5-sonnet-20240620", max_tokens |-> 1024,
     tools |-> tools, messages |-> AnthroMessages(msgs),
     system |-> IF SystemMessage(msgs) \in {<<>>, <<"">>} THEN <<>>
                ELSE SystemMessage(msgs)]

NoRequest ==
    [model |-> "", max_tokens |-> 0, tools |-> <<>>, messages |-> <<>>,
     system |-> <<>>]

(***************************************************************************)
(* _llm_chat, inbound: provider response content -> assistant message.     *)
(***************************************************************************)
TextBlock(text) == Block("text", text, "", "", EmptyDict, <<>>)

ToolUse(id, name, input) == Block("tool_use", <<>>, id, name, input, <<>>)

\* block.input or {}
InputOrEmpty(input) ==
    IF IsNonDict(input) /\ ~Truthy(input[NonDictKey]) THEN EmptyDict ELSE input

ToolCallOf(block) ==
    [id |-> block.id, type |-> "function",
     function |-> [name |-> block.name,
                   arguments |-> JsonDumps(InputOrEmpty(block.input))]]

\* the tool_use blocks of a response, in order
InboundToolUses(content) ==
    SelectSeq(content, LAMBDA block : block.type = "tool_use")

RECURSIVE InboundToolCalls(_)
InboundToolCalls(content) ==
    IF content = <<>> THEN <<>>
    ELSE (IF Head(content).type = "tool_use"
          THEN <<ToolCallOf(Head(content))>> ELSE <<>>)
         \o InboundToolCalls(Tail(content))

RECURSIVE InboundTextParts(_)
InboundTextParts(content) ==
    IF content = <<>> THEN <<>>
    ELSE (IF Head(content).type = "text"
          THEN <<Head(content).text>> ELSE <<>>)
         \o InboundTextParts(Tail(content))

\* only the first text block kept
AssistantText_first_only(content) ==
    IF InboundTextParts(content) = <<>> THEN <<>>
    ELSE InboundTextParts(content)[1]

\* "\n".join(assistant_text_parts) if assistant_text_parts else None
AssistantText(content) ==
    IF InboundTextParts(content) = <<>> THEN <<>>
    ELSE JoinLines(InboundTextParts(content))

\* response["choices"][0]["message"]
AssistantMessage(content) ==
    Msg("assistant", AssistantText(content), InboundToolCalls(content), "", "")

NoMessage == Msg("", <<>>, <<>>, "", "")

(***************************************************************************)
(* The provider, as the run sees it: each messages.create call raises or   *)
(* answers with content blocks; tool_use ids are fresh.                    *)
(***************************************************************************)
TextValid == <<"Done.", JsonDumps(SumFull)>>

TextBadStatus == <<"Finished", Padded(JsonDumps(SumBadStatus)), "">>

TextScalar == <<"All good", "42">>

TextJunk == <<"Done.", "not json">>

ProviderTexts == {TextValid, TextBadStatus, TextScalar, TextJunk}

ProviderToolUses ==
    { [name |-> "read_file", input |-> ArgsOver({"workdir", "path"})],
      [name |-> "write_file", input |-> ArgsOver({"workdir", "path"})],
      [name |-> "delete_repo", input |-> EmptyDict] }

ToolUseId(n) == "toolu_" \o ToString(n)

SeqsUpTo(S, n) == UNION {[1..k -> S] : k \in 0..n}

Min(a, b) == IF a < b THEN a ELSE b

\* the responses the provider may give once it has issued `n` tool_use blocks:
\* an optional text block, then up to MaxBatch tool_use blocks
ProviderResponses(n, uses) ==
    { (IF t = <<>> THEN <<>> ELSE <<TextBlock(t)>>)
      \o [i \in 1..Len(us) |-> ToolUse(ToolUseId(n + i), us[i].name, us[i].input)] :
        t \in ProviderTexts \cup {<<>>},
        us \in SeqsUpTo(uses, Min(MaxBatch, MaxCalls - n)) }

(***************************************************************************)
(* run_issue_task.                                                         *)
(***************************************************************************)
\* the summary checked against the tools that ran: pr_created is kept only
\* when create_pr returned
FinalSummary_checked(content, results) ==
    LET summary == extract_summary_from_text(content)
    IN IF /\ summary.kind = "return"
          /\ "create_pr" \notin DOMAIN results
          /\ Get(summary.value, "status", NoneLit) = StrLit("pr_created")
       THEN Return([summary.value EXCEPT !["status"] = StrLit("no_action")],
                   summary.calls)
       ELSE summary

\* summary = self._extract_summary_from_text(content): last_tool_results is
\* in scope and not used
FinalSummary(content, results) == extract_summary_from_text(content)

\* the loop guard off by one: range(self.max_steps + 1)
LoopContinues_inclusive(s, n) == s <= n

\* for step in range(self.max_steps)
LoopContinues(s, n) == s < n

\* the final text read from a key the message does not have
FinalContent_wrong_key(msg) == <<"">>

\* message.get("content") or ""
FinalContent(msg) == IF msg.content = <<>> THEN <<"">> ELSE msg.content

\* the tool message correlated by the tool's name instead of the call's id
ToolMessage_id_from_name(tool_call, name, result) ==
    Msg("tool", <<JsonDumps(result)>>, <<>>, name, name)

\* the "tool" message appended for one tool call
ToolMessage(tool_call, name, result) ==
    Msg("tool", <<JsonDumps(result)>>, <<>>, tool_call.id, name)

\* an append that overwrites the last message
AppendMessage_overwrite(msgs, m) == [msgs EXCEPT ![Len(msgs)] = m]

\* messages.append(m)
AppendMessage(msgs, m) == Append(msgs, m)

\* the inner loop left after its first tool call
BatchDone_after_first(i, tool_calls) == TRUE

\* `for tool_call in tool_calls` is over after the call at position i
BatchDone(i, tool_calls) == i = Len(tool_calls)

\* the step counter never advanced
StepAfter_never(s, i, tool_calls) == s

\* the step counter advanced by every tool call
StepAfter_per_call(s, i, tool_calls) == s + 1

\* the value of `step` after the call at position i: `continue` takes the
\* outer loop to its next step once the inner loop is over
StepAfter(s, i, tool_calls) == IF BatchDone(i, tool_calls) THEN s + 1 ELSE s

MaxStepsReached ==
    ("status" :> StrLit("max_steps_reached"))
    @@ ("details" :> StrLit("Agent hit max_steps without finalizing."))

NotCalled == [kind |-> "none", value |-> EmptyDict, lit |-> "", exc |-> "", calls |-> <<>>]

NoExtractInput ==
    [kind |-> "blank", before |-> <<>>, core |-> "", obj |-> EmptyDict,
     after |-> <<>>, text |-> <<>>]

NoAdapterCall ==
    [kind |-> "none", request |-> NoRequest, response |-> <<>>,
     message |-> NoMessage]

RunInit ==
    /\ max_steps \in 0..MaxSteps
    /\ pc = "loop"
    /\ step = 0
    /\ messages = initial_messages
    /\ message = NoMessage
    /\ idx = 0
    /\ last_tool_results = EmptyDict
    /\ outcome = EmptyDict
    /\ exc = ""
    /\ request = NoRequest
    /\ llm_calls = 0
    /\ dispatch_log = <<>>
    /\ mcp_log = <<>>
    /\ issued = 0
    /\ received = <<>>

DispatchIdle ==
    /\ d_name = ""
    /\ d_args = EmptyDict
    /\ d_exec = "ok"
    /\ d_out = NotCalled

ExtractIdle ==
    /\ e_in = NoExtractInput
    /\ e_out = NotCalled

AdapterIdle ==
    /\ a_messages = <<>>
    /\ a_out = NoAdapterCall

ConcIdle ==
    /\ runs = <<>>
    /\ scripts = <<>>

\* no request is being answered
NoServerRequest ==
    [path |-> "", url |-> "", workdir |-> "", branch |-> ""]

\* no response has been produced
NoServerResponse ==
    [status |-> 0, detail |-> <<>>, workdir |-> <<>>, remote_ref |-> <<>>,
     pr_number |-> <<>>, html_url |-> <<>>]

ServerIdle ==
    /\ ALLOWED_REPOS = {}
    /\ DRY_RUN = FALSE
    /\ s_req = NoServerRequest
    /\ s_resp = NoServerResponse
    /\ workdirs = {}
    /\ clones = <<>>
    /\ commits = <<>>
    /\ pushes = <<>>
    /\ github_posts = <<>>
    /\ pulls = <<>>
    /\ served = 0

\* no message is being processed
NoTicket == [receipt |-> 0, body |-> ""]

WorkerIdle ==
    /\ w_pc = "idle"
    /\ w_msg = NoTicket
    /\ w_task = NotCalled
    /\ w_result = NotCalled
    /\ w_empty = FALSE
    /\ w_received = 0
    /\ w_parsed = {}
    /\ w_ran = {}
    /\ w_raised = {}
    /\ w_delete_calls = {}
    /\ w_deleted = {}

SyncIdle ==
    /\ y_script = ""
    /\ y_columns = <<>>
    /\ y_items = <<>>
    /\ y_pc = "idle"
    /\ y_col = 0
    /\ y_cards = <<>>
    /\ y_pos = 0
    /\ y_sent = <<>>

ServiceIdle == ServerIdle /\ WorkerIdle /\ SyncIdle

HarnessIdle ==
    DispatchIdle /\ ExtractIdle /\ AdapterIdle /\ ConcIdle /\ ServiceIdle

Init == RunInit /\ tool_uses = ProviderToolUses /\ HarnessIdle

\* self.anthropic.messages.create raises inside _llm_chat
LlmChatRaises ==
    /\ pc = "loop"
    /\ LoopContinues(step, max_steps)
    /\ llm_calls' = llm_calls + 1
    /\ request' = CreateArgs(messages, tool_definitions)
    /\ pc' = "raised"
    /\ exc' = "APIError"
    /\ UNCHANGED <<max_steps, tool_uses, step, messages, message, idx,
                   last_tool_results, outcome, dispatch_log, mcp_log, issued,
                   received>>
    /\ UNCHANGED harnessVars

\* one provider round-trip whose answer carries tool calls
StepToolCalls ==
    /\ pc = "loop"
    /\ LoopContinues(step, max_steps)
    /\ \E content \in ProviderResponses(issued, tool_uses) :
          /\ InboundToolCalls(content) # <<>>
          /\ message' = AssistantMessage(content)
          /\ messages' = AppendMessage(messages, AssistantMessage(content))
          /\ issued' = issued + Len(InboundToolCalls(content))
          /\ received' = received \o InboundToolUses(content)
    /\ llm_calls' = llm_calls + 1
    /\ request' = CreateArgs(messages, tool_definitions)
    /\ idx' = 1
    /\ pc' = "dispatch"
    /\ UNCHANGED <<max_steps, tool_uses, step, last_tool_results, outcome, exc,
                   dispatch_log, mcp_log>>
    /\ UNCHANGED harnessVars

\* one provider round-trip whose answer carries no tool call: the final answer
StepFinal ==
    /\ pc = "loop"
    /\ LoopContinues(step, max_steps)
    /\ \E content \in ProviderResponses(issued, tool_uses) :
          /\ InboundToolCalls(content) = <<>>
          /\ message' = AssistantMessage(content)
          /\ LET summary ==
                   FinalSummary(FinalContent(AssistantMessage(content)),
                                last_tool_results)
             IN IF summary.kind = "raise"
                THEN pc' = "raised" /\ exc' = summary.exc /\ outcome' = outcome
                ELSE pc' = "done" /\ outcome' = summary.value /\ exc' = exc
    /\ llm_calls' = llm_calls + 1
    /\ request' = CreateArgs(messages, tool_definitions)
    /\ UNCHANGED <<max_steps, tool_uses, step, messages, idx, last_tool_results,
                   dispatch_log, mcp_log, issued, received>>
    /\ UNCHANGED harnessVars

\* one pass of `for tool_call in tool_calls`; after the last one, `continue`
DispatchToolCall ==
    /\ pc = "dispatch"
    /\ idx <= Len(message.tool_calls)
    /\ LET tool_call == message.tool_calls[idx]
           name == tool_call.function.name
           args == LoadArguments(tool_call.function.arguments)
       IN IF args.kind = "JSONDecodeError"
          THEN /\ pc' = "raised"
               /\ exc' = "JSONDecodeError"
               /\ UNCHANGED <<messages, idx, step, last_tool_results,
                              dispatch_log, mcp_log>>
          ELSE \E exec \in ExecBehaviours :
                 LET result == dispatch_tool(name, args.obj, exec) IN
                 /\ dispatch_log' = Append(dispatch_log, tool_call.id)
                 /\ mcp_log' = mcp_log \o result.calls
                 /\ IF result.kind = "raise"
                    THEN /\ pc' = "raised"
                         /\ exc' = result.exc
                         /\ UNCHANGED <<messages, idx, step, last_tool_results>>
                    ELSE /\ last_tool_results' =
                               [n \in DOMAIN last_tool_results \cup {name} |->
                                   IF n = name THEN result.value
                                   ELSE last_tool_results[n]]
                         /\ messages' =
                               AppendMessage(messages,
                                             ToolMessage(tool_call, name, result.value))
                         /\ idx' = idx + 1
                         /\ exc' = exc
                         /\ pc' = IF BatchDone(idx, message.tool_calls)
                                  THEN "loop" ELSE "dispatch"
                         /\ step' = StepAfter(step, idx, message.tool_calls)
    /\ UNCHANGED <<max_steps, tool_uses, message, outcome, request, llm_calls,
                   issued, received>>
    /\ UNCHANGED harnessVars

\* the loop ran out of steps
Exhausted ==
    /\ pc = "loop"
    /\ ~LoopContinues(step, max_steps)
    /\ pc' = "done"
    /\ outcome' = MaxStepsReached
    /\ UNCHANGED <<max_steps, tool_uses, step, messages, message, idx,
                   last_tool_results, exc, request, llm_calls, dispatch_log,
                   mcp_log, issued, received>>
    /\ UNCHANGED harnessVars

Next ==
    \/ LlmChatRaises
    \/ StepToolCalls
    \/ StepFinal
    \/ DispatchToolCall
    \/ Exhausted

Spec == Init /\ [][Next]_vars

\* the same run when no provider call and no executor call hangs: a step
\* that can be taken is taken.  The provider asks for one tool, whose
\* executor answers or fails.
FairToolUses ==
    { [name |-> "read_file", input |-> ArgsOver({"workdir", "path"})] }

FairInit == RunInit /\ tool_uses = FairToolUses /\ HarnessIdle

FairSpec == FairInit /\ [][Next]_vars /\ WF_vars(Next)

(***************************************************************************)
(* The same run against a provider that also emits tool_use blocks whose   *)
(* input is not key/value data (a list, a string).                         *)
(***************************************************************************)
MalformedToolUses ==
    { [name |-> "read_file", input |-> ArgsOver({"workdir", "path"})],
      [name |-> "read_file", input |-> NonDict("[1, 2]")],
      [name |-> "delete_repo", input |-> NonDict("\"done\"")] }

DecodeInit == RunInit /\ tool_uses = MalformedToolUses /\ HarnessIdle

DecodeSpec == DecodeInit /\ [][Next]_vars

(***************************************************************************)
(* _dispatch_tool on its own: the name, the arguments and the executor's   *)
(* behaviour are drawn in the initial state, the one action calls it.      *)
(***************************************************************************)
RunIdle ==
    /\ max_steps = 0
    /\ tool_uses = {}
    /\ pc = "idle"
    /\ step = 0
    /\ messages = <<>>
    /\ message = NoMessage
    /\ idx = 0
    /\ last_tool_results = EmptyDict
    /\ outcome = EmptyDict
    /\ exc = ""
    /\ request = NoRequest
    /\ llm_calls = 0
    /\ dispatch_log = <<>>
    /\ mcp_log = <<>>
    /\ issued = 0
    /\ received = <<>>

DispatchInit ==
    /\ RunIdle
    /\ ServiceIdle
    /\ ExtractIdle
    /\ AdapterIdle
    /\ ConcIdle
    /\ d_name \in ToolNames \cup UnknownNames
    /\ d_args \in IF d_name \in ToolNames
                  THEN {ArgsOver(S) : S \in SUBSET ToolDef(d_name).properties}
                  ELSE {EmptyDict, ArgsOver({"workdir", "path"}),
                        ArgsOver({"url", "branch"})}
    /\ d_exec \in ExecBehaviours
    /\ d_out = NotCalled

CallDispatch ==
    /\ d_out = NotCalled
    /\ d_out' = dispatch_tool(d_name, d_args, d_exec)
    /\ UNCHANGED <<d_name, d_args, d_exec>>
    /\ UNCHANGED <<runVars, extractVars, adapterVars, concVars, serviceVars>>

DispatchNext == CallDispatch

DispatchSpec == DispatchInit /\ [][DispatchNext]_vars

(***************************************************************************)
(* The final-answer path on its own (run_issue_task's last three lines and *)
(* _extract_summary_from_text): the assistant message's content is drawn   *)
(* in the initial state, the one action extracts the summary.  A content   *)
(* is made of the lines before its last non-blank line, that line (its     *)
(* text `core`, bare or padded with whitespace) and blank lines after it;  *)
(* `kind` tells what the core is: the text of a dict (`obj`), of another   *)
(* JSON value, or no JSON at all.  A content without a non-blank line is   *)
(* of kind "blank"; <<>> is the absent content (None).                     *)
(***************************************************************************)
ExtractBefore ==
    {<<>>, <<"Done.">>, <<"", JsonDumps(SumFull)>>, <<Padded("not json"), " ">>}

ExtractAfter == {<<>>, <<"">>, <<"   ", "">>}

BlankTexts == {<<>>, <<"">>, <<" ">>, <<"", "   ", "">>}

CoreKinds ==
    {[kind |-> "object", core |-> JsonDumps(d), obj |-> d] : d \in SummaryObjects}
    \cup {[kind |-> "other", core |-> c, obj |-> EmptyDict] : c \in JsonNonObjects}
    \cup {[kind |-> "prose", core |-> c, obj |-> EmptyDict] : c \in ProseLines}

ExtractInputs ==
    { [kind |-> k.kind, before |-> b, core |-> k.core, obj |-> k.obj, after |-> a,
       text |-> b \o <<IF padded THEN Padded(k.core) ELSE k.core>> \o a] :
          k \in CoreKinds, b \in ExtractBefore, a \in ExtractAfter,
          padded \in BOOLEAN }
    \cup { [kind |-> "blank", before |-> <<>>, core |-> "", obj |-> EmptyDict,
             after |-> <<>>, text |-> t] : t \in BlankTexts }

ExtractInit ==
    /\ RunIdle
    /\ ServiceIdle
    /\ DispatchIdle
    /\ AdapterIdle
    /\ ConcIdle
    /\ e_in \in ExtractInputs
    /\ e_out = NotCalled

\* content = message.get("content") or ""; _extract_summary_from_text(content)
CallExtract ==
    /\ e_out = NotCalled
    /\ e_out' = extract_summary_from_text(
                    FinalContent(Msg("assistant", e_in.text, <<>>, "", "")))
    /\ UNCHANGED e_in
    /\ UNCHANGED <<runVars, dispatchVars, adapterVars, concVars,
                   serviceVars>>

ExtractNext == CallExtract

ExtractSpec == ExtractInit /\ [][ExtractNext]_vars

(***************************************************************************)
(* _llm_chat on its own: the Conversation is drawn in the initial state    *)
(* (the two initial messages, then any messages of a small alphabet that   *)
(* has tool messages with an id, with the empty id and with an id no       *)
(* assistant message issued); the call sends the request and returns the   *)
(* translated response, or messages.create raises.                         *)
(***************************************************************************)
CallRead == ToolCallOf(ToolUse("toolu_1", "read_file", ArgsOver({"workdir", "path"})))

CallFind ==
    ToolCallOf(ToolUse("", "find_files", ArgsOver({"workdir", "glob_pattern"})))

ResultText == <<JsonDumps(("text" :> StrLit("hello")))>>

ResultFiles == <<JsonDumps(("files" :> "[]"))>>

AdapterMsgs ==
    { Msg("assistant", <<"Reading.">>, <<CallRead>>, "", ""),
      Msg("assistant", <<>>, <<CallFind, CallRead>>, "", ""),
      Msg("tool", ResultText, <<>>, "toolu_1", "read_file"),
      Msg("tool", ResultFiles, <<>>, "", "find_files"),
      Msg("tool", ResultText, <<>>, "toolu_9", "read_file"),
      Msg("user", <<"Go on.">>, <<>>, "", ""),
      Msg("system", <<"Be brief.">>, <<>>, "", "") }

Conversations == {initial_messages \o t : t \in SeqsUpTo(AdapterMsgs, MaxTail)}

AdapterResponses ==
    { <<>>,
      <<TextBlock(<<"Done.">>)>>,
      <<TextBlock(<<"One.", "Two.">>), TextBlock(<<"Three.">>)>>,
      <<ToolUse("toolu_2", "read_file", ArgsOver({"workdir", "path"}))>>,
      <<TextBlock(<<"Reading.">>), ToolUse("toolu_2", "write_file", EmptyDict),
        TextBlock(<<"Writing.">>)>> }

AdapterInit ==
    /\ RunIdle
    /\ ServiceIdle
    /\ DispatchIdle
    /\ ExtractIdle
    /\ ConcIdle
    /\ a_messages \in Conversations
    /\ a_out = NoAdapterCall

\* _llm_chat(a_messages, tools) returns the translated response
CallLlmChat ==
    /\ a_out = NoAdapterCall
    /\ \E content \in AdapterResponses :
          a_out' = [kind |-> "return",
                    request |-> CreateArgs(a_messages, tool_definitions),
                    response |-> content,
                    message |-> AssistantMessage(content)]
    /\ UNCHANGED a_messages
    /\ UNCHANGED <<runVars, dispatchVars, extractVars, concVars,
                   serviceVars>>

\* self.anthropic.messages.create raises
CallLlmChatRaises ==
    /\ a_out = NoAdapterCall
    /\ a_out' = [kind |-> "raise",
                 request |-> CreateArgs(a_messages, tool_definitions),
                 response |-> <<>>,
                 message |-> NoMessage]
    /\ UNCHANGED a_messages
    /\ UNCHANGED <<runVars, dispatchVars, extractVars, concVars,
                   serviceVars>>

AdapterNext == CallLlmChat \/ CallLlmChatRaises

AdapterSpec == AdapterInit /\ [][AdapterNext]_vars

(***************************************************************************)
(* Two run_issue_task calls on separate ToolCallingAgent instances, their  *)
(* steps interleaved.  Everything a call works on is a local of the call   *)
(* (messages, message, last_tool_results, step) and is kept per run in     *)
(* `runs`; what the provider and the executor answer to a run is fixed by  *)
(* the run's script, drawn in the initial state.                           *)
(***************************************************************************)
Runs == {"a", "b"}

RunPrompt(r) == <<"Repository URL: https://github.com/o/r", "Issue of run " \o r>>

initial_messages_of(r) ==
    << Msg("system", SystemPrompt, <<>>, "", ""),
       Msg("user", RunPrompt(r), <<>>, "", "") >>

Scripted(raises, content) == [raises |-> raises, content |-> content]

RunUse(r, n, name, input) ==
    ToolUse("toolu_" \o r \o "_" \o ToString(n), name, input)

ScriptsOf(r) ==
    { [max_steps |-> 2,
       responses |->
          << Scripted(FALSE, << TextBlock(<<"Reading.">>),
                                RunUse(r, 1, "read_file", ArgsOver({"workdir", "path"})),
                                RunUse(r, 2, "delete_repo", EmptyDict) >>),
             Scripted(FALSE, <<TextBlock(TextValid)>>) >>,
       execs |-> <<"ok", "ok">>],
      [max_steps |-> 1,
       responses |->
          << Scripted(FALSE, <<RunUse(r, 1, "read_file",
                                      ArgsOver({"workdir", "path"}))>>) >>,
       execs |-> <<"ok">>],
      [max_steps |-> 2,
       responses |->
          << Scripted(FALSE, <<RunUse(r, 1, "read_file",
                                      ArgsOver({"workdir", "path"}))>>),
             Scripted(FALSE, <<TextBlock(TextJunk)>>) >>,
       execs |-> <<"fault">>],
      [max_steps |-> 2,
       responses |-> << Scripted(TRUE, <<>>) >>,
       execs |-> <<>>],
      [max_steps |-> 2,
       responses |->
          << Scripted(FALSE, <<RunUse(r, 1, "create_pr",
                                      ArgsOver(ToolDef("create_pr").properties))>>),
             Scripted(FALSE, <<TextBlock(TextValid)>>) >>,
       execs |-> <<"ok">>],
      [max_steps |-> 1,
       responses |-> << Scripted(FALSE, <<TextBlock(TextValid)>>) >>,
       execs |-> <<>>] }

\* the locals of a call that has not taken a step
RunStart(r) ==
    [pc |-> "loop", step |-> 0, messages |-> initial_messages_of(r),
     message |-> NoMessage, idx |-> 0, last_tool_results |-> EmptyDict,
     outcome |-> EmptyDict, exc |-> "", llm_calls |-> 0, dispatched |-> 0,
     taken |-> 0]

\* one step of run_issue_task on the locals rs, answered by the script sc
RunStep(rs, sc) ==
    LET t == [rs EXCEPT !.taken = @ + 1] IN
    IF rs.pc = "loop"
    THEN IF ~LoopContinues(rs.step, sc.max_steps)
         THEN [t EXCEPT !.pc = "done", !.outcome = MaxStepsReached]
         ELSE LET resp == sc.responses[rs.llm_calls + 1]
                  c == [t EXCEPT !.llm_calls = @ + 1]
                  msg == AssistantMessage(resp.content)
                  summary == FinalSummary(FinalContent(msg), rs.last_tool_results)
              IN IF resp.raises
                 THEN [c EXCEPT !.pc = "raised", !.exc = "APIError"]
                 ELSE IF msg.tool_calls # <<>>
                 THEN [c EXCEPT !.message = msg,
                                !.messages = AppendMessage(@, msg),
                                !.idx = 1, !.pc = "dispatch"]
                 ELSE IF summary.kind = "raise"
                 THEN [c EXCEPT !.message = msg, !.pc = "raised",
                                !.exc = summary.exc]
                 ELSE [c EXCEPT !.message = msg, !.pc = "done",
                                !.outcome = summary.value]
    ELSE LET tool_call == rs.message.tool_calls[rs.idx]
             name == tool_call.function.name
             args == LoadArguments(tool_call.function.arguments)
             result == dispatch_tool(name, args.obj, sc.execs[rs.dispatched + 1])
             d == [t EXCEPT !.dispatched = @ + 1]
         IN IF args.kind = "JSONDecodeError"
            THEN [t EXCEPT !.pc = "raised", !.exc = "JSONDecodeError"]
            ELSE IF result.kind = "raise"
            THEN [d EXCEPT !.pc = "raised", !.exc = result.exc]
            ELSE [d EXCEPT
                    !.last_tool_results =
                        [n \in DOMAIN @ \cup {name} |->
                            IF n = name THEN result.value ELSE @[n]],
                    !.messages =
                        AppendMessage(@, ToolMessage(tool_call, name, result.value)),
                    !.idx = @ + 1,
                    !.pc = IF BatchDone(rs.idx, rs.message.tool_calls)
                           THEN "loop" ELSE "dispatch",
                    !.step = StepAfter(rs.step, rs.idx, rs.message.tool_calls)]

\* one list of messages used by every call
ConversationOf_shared(r) == "a"

\* messages = self._initial_messages(task): the Conversation a call works
\* on is its own
ConversationOf(r) == r

ConcInit ==
    /\ RunIdle
    /\ ServiceIdle
    /\ DispatchIdle
    /\ ExtractIdle
    /\ AdapterIdle
    /\ scripts \in [Runs -> ScriptsOf("a") \cup ScriptsOf("b")]
    /\ \A r \in Runs : scripts[r] \in ScriptsOf(r)
    /\ runs = [r \in Runs |-> RunStart(r)]

\* run r takes its next step
RunTakesStep(r) ==
    /\ runs[r].pc \in {"loop", "dispatch"}
    /\ LET owner == ConversationOf(r)
           seen == [runs[r] EXCEPT !.messages = runs[owner].messages]
           next == RunStep(seen, scripts[r])
       IN runs' = [q \in Runs |->
                     IF q = r THEN next
                     ELSE IF q = owner
                     THEN [runs[q] EXCEPT !.messages = next.messages]
                     ELSE runs[q]]
    /\ UNCHANGED scripts
    /\ UNCHANGED <<runVars, dispatchVars, extractVars, adapterVars,
                   serviceVars>>

ConcNext == \E r \in Runs : RunTakesStep(r)

ConcSpec == ConcInit /\ [][ConcNext]_vars

(***************************************************************************)
(* The MCP server (services/mcp-server/app.py) with the git and GitHub     *)
(* adapters behind it.  A text the server builds is the sequence of its    *)
(* words, the result of text.split(" "); what git, the file system and     *)
(* GitHub do is an input of each request.                                  *)
(***************************************************************************)
RepoUrls ==
    {"https://github.com/test/repo.git", "https://github.com/other/repo",
     "git@github.com:test/repo.git"}

\* GitHubClient._parse_repo: the URLs its regular expression matches
ParsableUrls ==
    {"https://github.com/test/repo.git", "https://github.com/other/repo"}

\* values of the ALLOWED_REPOS environment variable, as value.split(",")
AllowedReposEnvs ==
    { <<"">>,
      <<" ">>,
      <<"https://github.com/test/repo.git">>,
      <<"https://github.com/test/repo.git", "", " ">>,
      <<Padded("https://github.com/test/repo.git"),
        "https://github.com/other/repo">> }

\* s.strip() of one segment
StripSegment(seg) ==
    IF seg \in BlankLines THEN ""
    ELSE IF \E u \in RepoUrls : Padded(u) = seg
    THEN CHOOSE u \in RepoUrls : Padded(u) = seg
    ELSE seg

\* set([s.strip() for s in value.split(",") if s.strip()])
AllowedRepos(env) ==
    {StripSegment(env[i]) :
        i \in {j \in DOMAIN env : StripSegment(env[j]) # ""}}

\* values of the DRY_RUN environment variable ("0" when unset)
DryRunEnvs == {"0", "1", "true", ""}

\* os.getenv("DRY_RUN", "0") == "1"
DryRun(env) == env = "1"

\* the allowlist check switched off
ensure_allowed_repo_off(url) == TRUE

\* _ensure_allowed_repo(url): TRUE when it returns, FALSE when it raises
ensure_allowed_repo(url) == ~(ALLOWED_REPOS # {} /\ url \notin ALLOWED_REPOS)

\* HTTPException(status_code=403, detail="Repo not allowlisted " + url)
Forbidden(url) ==
    [NoServerResponse EXCEPT !.status = 403,
                             !.detail = <<"Repo", "not", "allowlisted", url>>]

\* an exception that is no HTTPException escaped the handler
InternalServerError ==
    [NoServerResponse EXCEPT !.status = 500,
                             !.detail = <<"Internal", "Server", "Error">>]

\* HTTPException(status_code=500, detail="GitHub token not configured")
TokenNotConfigured ==
    [NoServerResponse EXCEPT !.status = 500,
                             !.detail = <<"GitHub", "token", "not", "configured">>]

\* push passed as True whatever DRY_RUN is
PushArgument_always == TRUE

\* push=not DRY_RUN
PushArgument == ~DRY_RUN

\* if DRY_RUN: return CreatePRResp(pr_number=0, ...)
DryRunShortCut == DRY_RUN

\* commit_and_push(workdir, branch, message, push=push): is_repo, dirty and
\* push_ok are what Repo(workdir), repo.is_dirty() and repo.git.push do
commit_and_push(workdir, branch, push, is_repo, dirty, push_ok) ==
    LET entry == [workdir |-> workdir, branch |-> branch]
    IN [raised  |-> ~is_repo \/ (push /\ ~push_ok),
        commits |-> IF is_repo /\ dirty THEN <<entry>> ELSE <<>>,
        pushes  |-> IF is_repo /\ push THEN <<entry>> ELSE <<>>,
        ref     |-> <<"origin/" \o branch>>]

ServerInit ==
    /\ RunIdle
    /\ DispatchIdle
    /\ ExtractIdle
    /\ AdapterIdle
    /\ ConcIdle
    /\ WorkerIdle
    /\ SyncIdle
    /\ ALLOWED_REPOS \in {AllowedRepos(env) : env \in AllowedReposEnvs}
    /\ DRY_RUN \in {DryRun(env) : env \in DryRunEnvs}
    /\ s_req = NoServerRequest
    /\ s_resp = NoServerResponse
    /\ workdirs = {}
    /\ clones = <<>>
    /\ commits = <<>>
    /\ pushes = <<>>
    /\ github_posts = <<>>
    /\ pulls = <<>>
    /\ served = 0

\* POST /repo/clone
RepoClone ==
    \E url \in RepoUrls, clone_ok \in BOOLEAN :
       /\ served < MaxRequests
       /\ served' = served + 1
       /\ s_req' = [NoServerRequest EXCEPT !.path = "/repo/clone",
                                           !.url = url, !.branch = "main"]
       /\ IF ~ensure_allowed_repo(url)
          THEN /\ s_resp' = Forbidden(url)
               /\ UNCHANGED <<workdirs, clones>>
          ELSE LET tmpdir == "/tmp/mcp-" \o ToString(Cardinality(workdirs) + 1)
               IN /\ workdirs' = workdirs \cup {tmpdir}
                  /\ clones' = Append(clones, [url |-> url, dest |-> tmpdir])
                  /\ s_resp' = IF clone_ok
                               THEN [NoServerResponse EXCEPT
                                        !.status = 200, !.workdir = <<tmpdir>>]
                               ELSE InternalServerError
       /\ UNCHANGED <<ALLOWED_REPOS, DRY_RUN, commits, pushes, github_posts,
                      pulls>>
       /\ UNCHANGED <<agentVars, workerVars, syncVars>>

\* POST /git/commit_push
GitCommitPush ==
    \E workdir \in workdirs \cup {"/tmp/missing"},
       is_repo \in BOOLEAN, dirty \in BOOLEAN, push_ok \in BOOLEAN :
       /\ served < MaxRequests
       /\ workdir \notin workdirs => ~is_repo
       /\ served' = served + 1
       /\ s_req' = [NoServerRequest EXCEPT !.path = "/git/commit_push",
                                           !.workdir = workdir,
                                           !.branch = "feature"]
       /\ LET done == commit_and_push(workdir, "feature", PushArgument,
                                      is_repo, dirty, push_ok)
              ref == IF DRY_RUN THEN <<"(dry-run)">> \o done.ref ELSE done.ref
          IN /\ commits' = commits \o done.commits
             /\ pushes' = pushes \o done.pushes
             /\ s_resp' = IF done.raised
                          THEN InternalServerError
                          ELSE [NoServerResponse EXCEPT
                                   !.status = 200, !.remote_ref = ref]
       /\ UNCHANGED <<ALLOWED_REPOS, DRY_RUN, workdirs, clones, github_posts,
                      pulls>>
       /\ UNCHANGED <<agentVars, workerVars, syncVars>>

\* POST /github/create_pr
GithubCreatePr ==
    \E url \in RepoUrls, token \in BOOLEAN, post_ok \in BOOLEAN :
       /\ served < MaxRequests
       /\ served' = served + 1
       /\ s_req' = [NoServerRequest EXCEPT !.path = "/github/create_pr",
                                           !.url = url, !.branch = "feature"]
       /\ IF ~ensure_allowed_repo(url)
          THEN /\ s_resp' = Forbidden(url)
               /\ UNCHANGED <<github_posts, pulls>>
          ELSE IF DryRunShortCut
          THEN /\ s_resp' = [NoServerResponse EXCEPT
                                !.status = 200, !.pr_number = <<0>>,
                                !.html_url = <<"(dry-run)", "not", "created">>]
               /\ UNCHANGED <<github_posts, pulls>>
          ELSE IF ~token
          THEN /\ s_resp' = TokenNotConfigured
               /\ UNCHANGED <<github_posts, pulls>>
          ELSE IF url \notin ParsableUrls
          THEN /\ s_resp' = InternalServerError
               /\ UNCHANGED <<github_posts, pulls>>
          ELSE /\ github_posts' = Append(github_posts, url)
               /\ IF post_ok
                  THEN /\ pulls' = Append(pulls, url)
                       /\ s_resp' = [NoServerResponse EXCEPT
                                        !.status = 200,
                                        !.pr_number = <<Len(pulls) + 1>>,
                                        !.html_url = <<url \o "/pull/"
                                             \o ToString(Len(pulls) + 1)>>]
                  ELSE /\ pulls' = pulls
                       /\ s_resp' = InternalServerError
       /\ UNCHANGED <<ALLOWED_REPOS, DRY_RUN, workdirs, clones, commits,
                      pushes>>
       /\ UNCHANGED <<agentVars, workerVars, syncVars>>

ServerNext == RepoClone \/ GitCommitPush \/ GithubCreatePr

ServerSpec == ServerInit /\ [][ServerNext]_vars

(***************************************************************************)
(* The ticket worker (services/scripts/ticket_worker.py): main's loop      *)
(* around receive_ticket, parse_ticket, agent.run_issue_task and           *)
(* delete_ticket.  What SQS delivers, what run_issue_task does and whether *)
(* sqs.delete_message succeeds are inputs; every delivery has a receipt    *)
(* handle of its own.                                                      *)
(***************************************************************************)
TicketFull ==
    "{\"issue_number\": 7, \"title\": \"Fix the parser\", \"body\": \"It fails.\", \"labels\": [\"bug\"]}"

TicketBare == "{\"issue_number\": 8, \"title\": \"\", \"body\": null}"

TicketNoNumber == "{\"title\": \"No number\"}"

TicketList == "[7]"

TicketNotJson == "issue 7"

\* message bodies SQS may deliver
TicketBodies ==
    {TicketFull, TicketBare, TicketNoNumber, TicketList, TicketNotJson}

\* json.loads(msg_body)
TicketLoads(body) ==
    CASE body = TicketFull ->
            [kind |-> "object",
             obj |-> ("issue_number" :> "7")
                     @@ ("title" :> StrLit("Fix the parser"))
                     @@ ("body" :> StrLit("It fails."))
                     @@ ("labels" :> "[\"bug\"]")]
      [] body = TicketBare ->
            [kind |-> "object",
             obj |-> ("issue_number" :> "8") @@ ("title" :> StrLit(""))
                     @@ ("body" :> NoneLit)]
      [] body = TicketNoNumber ->
            [kind |-> "object", obj |-> ("title" :> StrLit("No number"))]
      [] body = TicketList -> [kind |-> "other", obj |-> NonDict(body)]
      [] OTHER -> [kind |-> "JSONDecodeError", obj |-> EmptyDict]

\* parse_ticket(msg_body)
parse_ticket(body) ==
    LET loaded == TicketLoads(body)
        payload == loaded.obj
    IN IF loaded.kind = "JSONDecodeError" THEN Raise("JSONDecodeError", <<>>)
       ELSE IF IsNonDict(payload) THEN Raise("TypeError", <<>>)
       ELSE IF "issue_number" \notin DOMAIN payload THEN KeyError("issue_number")
       ELSE Return(
               ("repo_url" :> StrLit("https://github.com/test/repo.git"))
               @@ ("base_branch" :> StrLit("main"))
               @@ ("issue_number" :> payload["issue_number"])
               @@ ("title" :> IF Truthy(Get(payload, "title", NoneLit))
                              THEN payload["title"]
                              ELSE StrLit("Issue #" \o payload["issue_number"]))
               @@ ("body" :> IF Truthy(Get(payload, "body", NoneLit))
                             THEN payload["body"]
                             ELSE StrLit(""))
               @@ ("labels" :> Get(payload, "labels", "[]")),
               <<>>)

\* what agent.run_issue_task(task) may do
RunResults ==
    { extract_summary_from_text(TextValid),
      extract_summary_from_text(TextBadStatus),
      Return(MaxStepsReached, <<>>),
      Raise("APIError", <<>>) }

\* delete_ticket in a `finally`: reached whatever happened before
DeleteReached_always(parsed, ran) == TRUE

\* delete_ticket(receipt) is the last statement of the try body: it is
\* reached when parse_ticket and run_issue_task have both returned
DeleteReached(parsed, ran) == parsed /\ ran

\* where the loop goes after the try body stopped at parse_ticket or
\* run_issue_task
AfterProcessing(parsed, ran) ==
    IF DeleteReached(parsed, ran) THEN "delete" ELSE "except"

WorkerInit ==
    /\ RunIdle
    /\ DispatchIdle
    /\ ExtractIdle
    /\ AdapterIdle
    /\ ConcIdle
    /\ ServerIdle
    /\ SyncIdle
    /\ w_pc = "receive"
    /\ w_msg = NoTicket
    /\ w_task = NotCalled
    /\ w_result = NotCalled
    /\ w_empty = FALSE
    /\ w_received = 0
    /\ w_parsed = {}
    /\ w_ran = {}
    /\ w_raised = {}
    /\ w_delete_calls = {}
    /\ w_deleted = {}

\* receive_ticket() returned None: `continue`
ReceiveNone ==
    /\ w_pc = "receive"
    /\ w_empty' = TRUE
    /\ UNCHANGED <<w_pc, w_msg, w_task, w_result, w_received, w_parsed, w_ran,
                   w_raised, w_delete_calls, w_deleted>>
    /\ UNCHANGED <<agentVars, serverVars, syncVars>>

\* receive_ticket() returned a message
ReceiveTicket ==
    /\ w_pc = "receive"
    /\ w_received < MaxTickets
    /\ \E body \in TicketBodies :
          w_msg' = [receipt |-> w_received + 1, body |-> body]
    /\ w_received' = w_received + 1
    /\ w_empty' = FALSE
    /\ w_task' = NotCalled
    /\ w_result' = NotCalled
    /\ w_pc' = "parse"
    /\ UNCHANGED <<w_parsed, w_ran, w_raised, w_delete_calls, w_deleted>>
    /\ UNCHANGED <<agentVars, serverVars, syncVars>>

\* task = parse_ticket(body)
ParseTicket ==
    /\ w_pc = "parse"
    /\ w_task' = parse_ticket(w_msg.body)
    /\ IF w_task'.kind = "raise"
       THEN /\ w_raised' = w_raised \cup {w_msg.receipt}
            /\ w_parsed' = w_parsed
            /\ w_pc' = AfterProcessing(FALSE, FALSE)
       ELSE /\ w_parsed' = w_parsed \cup {w_msg.receipt}
            /\ w_raised' = w_raised
            /\ w_pc' = "run"
    /\ UNCHANGED <<w_msg, w_result, w_empty, w_received, w_ran, w_delete_calls,
                   w_deleted>>
    /\ UNCHANGED <<agentVars, serverVars, syncVars>>

\* result = agent.run_issue_task(task), then the log line
RunIssueTask ==
    /\ w_pc = "run"
    /\ w_result' \in RunResults
    /\ IF w_result'.kind = "raise"
       THEN /\ w_raised' = w_raised \cup {w_msg.receipt}
            /\ w_ran' = w_ran
            /\ w_pc' = AfterProcessing(TRUE, FALSE)
       ELSE /\ w_ran' = w_ran \cup {w_msg.receipt}
            /\ w_raised' = w_raised
            /\ w_pc' = AfterProcessing(TRUE, TRUE)
    /\ UNCHANGED <<w_msg, w_task, w_empty, w_received, w_parsed, w_delete_calls,
                   w_deleted>>
    /\ UNCHANGED <<agentVars, serverVars, syncVars>>

\* delete_ticket(receipt): sqs.delete_message returns or raises
DeleteTicket ==
    /\ w_pc = "delete"
    /\ w_delete_calls' = w_delete_calls \cup {w_msg.receipt}
    /\ \E delete_ok \in BOOLEAN :
          IF delete_ok
          THEN w_deleted' = w_deleted \cup {w_msg.receipt} /\ w_pc' = "receive"
          ELSE w_deleted' = w_deleted /\ w_pc' = "except"
    /\ UNCHANGED <<w_msg, w_task, w_result, w_empty, w_received, w_parsed,
                   w_ran, w_raised>>
    /\ UNCHANGED <<agentVars, serverVars, syncVars>>

\* except Exception: log, traceback.print_exc(), time.sleep(2)
HandleException ==
    /\ w_pc = "except"
    /\ w_pc' = "receive"
    /\ UNCHANGED <<w_msg, w_task, w_result, w_empty, w_received, w_parsed,
                   w_ran, w_raised, w_delete_calls, w_deleted>>
    /\ UNCHANGED <<agentVars, serverVars, syncVars>>

WorkerNext ==
    \/ ReceiveNone
    \/ ReceiveTicket
    \/ ParseTicket
    \/ RunIssueTask
    \/ DeleteTicket
    \/ HandleException

\* the worker process is scheduled: a statement that can run does run
WorkerSpec == WorkerInit /\ [][WorkerNext]_vars /\ WF_vars(WorkerNext)

(***************************************************************************)
(* The project-to-SQS sync: sync_project_to_sqs of                         *)
(* services/scripts/sync_github_project_to_sqs.py (classic boards: columns *)
(* of cards) and of services/scripts/sync_github_projectv2_to_sqs.py       *)
(* (Projects V2: items with field values).  The board is an input; GitHub  *)
(* answers a list request with one page of at most per_page entries.       *)
(***************************************************************************)
\* COLUMN_STATUS_MAP
COLUMN_STATUS_MAP ==
    ("Todo" :> "todo") @@ ("To do" :> "todo") @@ ("In Progress" :> "in_progress")
    @@ ("Dev Complete" :> "dev_complete") @@ ("Done" :> "done")

\* COLUMN_STATUS_MAP.get(key, default)
StatusGet(key, default) ==
    IF key \in DOMAIN COLUMN_STATUS_MAP THEN COLUMN_STATUS_MAP[key] ELSE default

\* the columns of a classic board, in board order; "Backlog" is a column
\* the map does not know
ColumnNames ==
    <<"Todo", "To do", "In Progress", "Dev Complete", "Done", "Backlog">>

\* a card is linked to an issue, is a note, or is linked to a pull request
CardKinds == {"issue", "note", "pull_request"}

Card(kind, column, number) == [kind |-> kind, column |-> column, number |-> number]

\* the classic board on which card k of `placed` sits in column placed[k][2]
BoardOf(placed) ==
    LET all == [k \in 1..Len(placed) |-> Card(placed[k][1], placed[k][2], k)]
    IN [i \in 1..Len(ColumnNames) |->
          [name |-> ColumnNames[i],
           cards |-> SelectSeq(all, LAMBDA c : c.column = i)]]

\* a board whose first column holds one issue more than a page
FullColumnBoard ==
    [i \in 1..Len(ColumnNames) |->
       [name |-> ColumnNames[i],
        cards |-> IF i = 1
                  THEN [k \in 1..(PerPage + 1) |-> Card("issue", 1, k)]
                  ELSE <<>>]]

ClassicBoards ==
    {BoardOf(placed) :
        placed \in SeqsUpTo(CardKinds \X (1..Len(ColumnNames)), MaxCards)}
    \cup {FullColumnBoard}

\* get_column_cards(column_id): one GET with per_page=100, no further page
get_column_cards(column) ==
    SubSeq(column.cards, 1, Min(Len(column.cards), PerPage))

\* fetch_issue_from_card(card) returned an issue
fetch_issue_from_card(card) == card.kind = "issue"

\* str.lower() of a field name
Lower(name) ==
    CASE name = "Status" -> "status"
      [] name = "Priority" -> "priority"
      [] OTHER -> name

FieldValue(field, name) == [field |-> field, name |-> name]

\* fieldValues.nodes of an item; a value that is no single-select value has
\* neither key
FieldValueLists ==
    { <<>>,
      <<FieldValue("Status", "Todo")>>,
      <<FieldValue("Status", "Done")>>,
      <<FieldValue("Status", "Backlog")>>,
      <<FieldValue("", ""), FieldValue("status", "In Progress")>>,
      <<FieldValue("Priority", "Done"), FieldValue("Status", "To do")>>,
      <<FieldValue("Priority", "Todo")>> }

\* content is an issue, or empty (a draft issue, a pull request)
ItemContents == {"issue", "none"}

Item(content, fields, number) ==
    [content |-> content, fields |-> fields, number |-> number]

ItemsOf(drawn) ==
    [k \in 1..Len(drawn) |-> Item(drawn[k][1], drawn[k][2], k)]

V2Boards ==
    {ItemsOf(drawn) : drawn \in SeqsUpTo(ItemContents \X FieldValueLists, MaxCards)}

\* get_project_items(project_id): pages of 100 items followed to the last
get_project_items(items) == items

\* extract_status_from_item(item)
extract_status_from_item(item) ==
    LET named == {k \in DOMAIN item.fields : Lower(item.fields[k].field) = "status"}
    IN IF named = {} THEN "unknown"
       ELSE LET first == CHOOSE k \in named : \A j \in named : k <= j
            IN StatusGet(item.fields[first].name, "unknown")

Sent(number, status) == [issue_number |-> number, status |-> status]

\* the classic loop body for one card: what it sends
ClassicSends(card, col_name) ==
    IF ~fetch_issue_from_card(card) THEN <<>>
    ELSE IF StatusGet(col_name, "None") = "done" THEN <<>>
    ELSE IF StatusGet(col_name, "None") = "None" THEN <<>>
    ELSE <<Sent(card.number, StatusGet(col_name, "None"))>>

\* the v2 loop body for one item: what it sends
V2Sends(item) ==
    IF item.content # "issue" THEN <<>>
    ELSE IF extract_status_from_item(item) = "done" THEN <<>>
    ELSE IF extract_status_from_item(item) = "unknown" THEN <<>>
    ELSE <<Sent(item.number, extract_status_from_item(item))>>

SyncInit ==
    /\ RunIdle
    /\ DispatchIdle
    /\ ExtractIdle
    /\ AdapterIdle
    /\ ConcIdle
    /\ ServerIdle
    /\ WorkerIdle
    /\ y_script \in {"classic", "v2"}
    /\ y_columns \in IF y_script = "classic" THEN ClassicBoards ELSE {<<>>}
    /\ y_items \in IF y_script = "v2" THEN V2Boards ELSE {<<>>}
    /\ y_pc = "start"
    /\ y_col = 0
    /\ y_cards = <<>>
    /\ y_pos = 0
    /\ y_sent = <<>>

\* classic: columns = get_project_columns(project["id"])
FetchColumns ==
    /\ y_script = "classic"
    /\ y_pc = "start"
    /\ y_col' = 1
    /\ y_pc' = "column"
    /\ UNCHANGED <<y_script, y_columns, y_items, y_cards, y_pos, y_sent>>
    /\ UNCHANGED <<agentVars, serverVars, workerVars>>

\* classic: cards = get_column_cards(col["id"]) for the next column, or the
\* end of `for col in columns`
FetchColumnCards ==
    /\ y_script = "classic"
    /\ y_pc = "column"
    /\ IF y_col > Len(y_columns)
       THEN /\ y_pc' = "done"
            /\ UNCHANGED <<y_col, y_cards, y_pos>>
       ELSE LET cards == get_column_cards(y_columns[y_col])
            IN /\ y_cards' = cards
               /\ y_pos' = 1
               /\ IF cards = <<>>
                  THEN y_col' = y_col + 1 /\ y_pc' = "column"
                  ELSE y_col' = y_col /\ y_pc' = "card"
    /\ UNCHANGED <<y_script, y_columns, y_items, y_sent>>
    /\ UNCHANGED <<agentVars, serverVars, workerVars>>

\* classic: one pass of `for card in cards`
ProcessCard ==
    /\ y_script = "classic"
    /\ y_pc = "card"
    /\ y_sent' = y_sent \o ClassicSends(y_cards[y_pos], y_columns[y_col].name)
    /\ IF y_pos = Len(y_cards)
       THEN y_col' = y_col + 1 /\ y_pc' = "column" /\ y_pos' = y_pos
       ELSE y_pos' = y_pos + 1 /\ y_pc' = "card" /\ y_col' = y_col
    /\ UNCHANGED <<y_script, y_columns, y_items, y_cards>>
    /\ UNCHANGED <<agentVars, serverVars, workerVars>>

\* v2: items = get_project_items(project["id"])
FetchItems ==
    /\ y_script = "v2"
    /\ y_pc = "start"
    /\ y_cards' = get_project_items(y_items)
    /\ y_pos' = 1
    /\ y_pc' = IF y_items = <<>> THEN "done" ELSE "item"
    /\ UNCHANGED <<y_script, y_columns, y_items, y_col, y_sent>>
    /\ UNCHANGED <<agentVars, serverVars, workerVars>>

\* v2: one pass of `for item in items`
ProcessItem ==
    /\ y_script = "v2"
    /\ y_pc = "item"
    /\ y_sent' = y_sent \o V2Sends(y_cards[y_pos])
    /\ IF y_pos = Len(y_cards)
       THEN y_pc' = "done" /\ y_pos' = y_pos
       ELSE y_pos' = y_pos + 1 /\ y_pc' = "item"
    /\ UNCHANGED <<y_script, y_columns, y_items, y_col, y_cards>>
    /\ UNCHANGED <<agentVars, serverVars, workerVars>>

SyncNext ==
    \/ FetchColumns
    \/ FetchColumnCards
    \/ ProcessCard
    \/ FetchItems
    \/ ProcessItem

SyncSpec == SyncInit /\ [][SyncNext]_vars

(***************************************************************************)
(* Properties of run_issue_task (checked under Spec).                      *)
(***************************************************************************)
ValidStatuses ==
    {StrLit("pr_created"), StrLit("no_action"),
     StrLit("max_steps_reached"), StrLit("error")}

ToolResultCount == Cardinality({j \in 1..Len(messages) : messages[j].role = "tool"})

\* C1: a run makes at most max_steps provider round-trips (_llm_chat calls),
\* whether it ends by a final assistant message, by exhaustion or otherwise.
StepBound == llm_calls <= max_steps

StepBoundReached ==
    /\ pc = "done"
    /\ outcome = MaxStepsReached
    /\ max_steps = MaxSteps
    /\ llm_calls = max_steps

HasAssistantBefore(j) == \E i \in 1..(j - 1) : messages[i].role = "assistant"

LastAssistantBefore(j) ==
    CHOOSE i \in 1..(j - 1) :
        /\ messages[i].role = "assistant"
        /\ \A k \in (i + 1)..(j - 1) : messages[k].role # "assistant"

ToolResultsIn(i, j) == Cardinality({k \in (i + 1)..j : messages[k].role = "tool"})

\* C2: every tool_result message carries the id of a ToolCall of the most
\* recent assistant message before it, and the n-th tool_result after an
\* assistant message carries the id of that message's n-th ToolCall.
Correlation ==
    \A j \in 1..Len(messages) :
        messages[j].role = "tool" =>
            /\ HasAssistantBefore(j)
            /\ LET a == LastAssistantBefore(j)
                   n == ToolResultsIn(a, j)
               IN /\ n <= Len(messages[a].tool_calls)
                  /\ messages[j].tool_call_id = messages[a].tool_calls[n].id

CorrelationTwoTurns ==
    /\ Len(messages) >= 7
    /\ messages[3].role = "assistant"
    /\ Len(messages[3].tool_calls) = 2
    /\ messages[4].role = "tool"
    /\ messages[5].role = "tool"
    /\ messages[4].tool_call_id # messages[5].tool_call_id
    /\ messages[6].role = "assistant"
    /\ messages[7].role = "tool"

\* C3: once the dispatch of an assistant turn with ToolCalls [A, B, C] is
\* over, the dispatcher has been invoked for A, B, C in that order and the
\* tool_result messages for A, B, C end the Conversation in that order.
BatchDispatchedInOrder ==
    (pc # "dispatch" /\ message.tool_calls # <<>>) =>
        LET n == Len(message.tool_calls)
            ids == [i \in 1..n |-> message.tool_calls[i].id]
        IN /\ Len(dispatch_log) >= n
           /\ SubSeq(dispatch_log, Len(dispatch_log) - n + 1, Len(dispatch_log)) = ids
           /\ Len(messages) >= n
           /\ \A i \in 1..n :
                 /\ messages[Len(messages) - n + i].role = "tool"
                 /\ messages[Len(messages) - n + i].tool_call_id = ids[i]

\* C4: no run ends by an exception escaping run_issue_task, and a returned
\* Outcome has one of the four status values.
OutcomeStatusValid ==
    /\ pc # "raised"
    /\ pc = "done" =>
          /\ "status" \in DOMAIN outcome
          /\ outcome["status"] \in ValidStatuses

\* C5: a faulting tool call does not abort the run: every ToolCall handed to
\* the dispatcher has its tool_result message in the Conversation, and the
\* run is never ended from inside the dispatch of a turn.
ToolFaultRecovered ==
    /\ \A i \in 1..Len(dispatch_log) :
          \E j \in 1..Len(messages) :
             /\ messages[j].role = "tool"
             /\ messages[j].tool_call_id = dispatch_log[i]
    /\ pc = "raised" => Len(dispatch_log) = ToolResultCount

\* C9: when the provider call raises inside _llm_chat, the run returns an
\* Outcome with status error and a details string.
ProviderFailureReported ==
    exc = "APIError" =>
        /\ pc = "done"
        /\ "status" \in DOMAIN outcome
        /\ outcome["status"] = StrLit("error")
        /\ "details" \in DOMAIN outcome

FinalAnswerSeen == message.role = "assistant" /\ message.tool_calls = <<>>

\* C10: an assistant response without ToolCalls ends the run at that step:
\* the run is over, what it returns is the extractor's result for the
\* response's text ("" when the response has no text), and no provider
\* round-trip and no dispatcher call follows.
NoToolTermination ==
    /\ [](FinalAnswerSeen =>
            LET text == IF message.content = <<>> THEN <<"">> ELSE message.content
                summary == extract_summary_from_text(text)
            IN /\ pc \in {"done", "raised"}
               /\ pc = "done" => summary.kind = "return" /\ outcome = summary.value
               /\ pc = "raised" => summary.kind = "raise" /\ exc = summary.exc)
    /\ [][FinalAnswerSeen =>
            /\ llm_calls' = llm_calls
            /\ dispatch_log' = dispatch_log
            /\ messages' = messages
            /\ pc' = pc]_vars

FinalAnswerWithBudgetLeft ==
    /\ FinalAnswerSeen
    /\ pc = "done"
    /\ message.content = TextValid
    /\ llm_calls < max_steps
    /\ outcome["status"] = StrLit("pr_created")

\* C11: a run in which no response came without ToolCalls (and the provider
\* answered every call) ends by returning the max_steps_reached Outcome
\* after exactly max_steps provider round-trips, never by raising; with
\* max_steps = 0 that is after no round-trip at all.
ExhaustionReturned ==
    (pc \in {"done", "raised"} /\ ~FinalAnswerSeen /\ exc # "APIError") =>
        /\ pc = "done"
        /\ outcome = MaxStepsReached
        /\ llm_calls = max_steps

\* C16: the Conversation only grows: every step of a run, a provider call
\* (which translates the Conversation) included, leaves the messages
\* appended so far in place, in their positions and with their content.
ConversationOnlyGrows ==
    [][/\ Len(messages') >= Len(messages)
       /\ SubSeq(messages', 1, Len(messages)) = messages]_vars

ConversationGrownOverTwoTurns ==
    /\ pc = "done"
    /\ llm_calls = 2
    /\ Len(messages) >= 6
    /\ SubSeq(messages, 1, 2) = initial_messages
    /\ request.messages # <<>>

\* C19: a tool invocation whose argument data is not key/value data never
\* ends the run: when a run is ended from inside the dispatch of a turn, the
\* invocation it ended at had key/value argument data.
DecodeFaultIsolated ==
    (pc = "raised" /\ idx \in 1..Len(message.tool_calls)) =>
        \A k \in 1..Len(received) :
            received[k].id = message.tool_calls[idx].id =>
                ~IsNonDict(received[k].input)

\* every ToolCall of the Conversation has exactly one tool message
EveryCallAnswered(msgs) ==
    \A i \in 1..Len(msgs) :
        \A k \in 1..Len(msgs[i].tool_calls) :
            Cardinality({j \in 1..Len(msgs) :
                            /\ msgs[j].role = "tool"
                            /\ msgs[j].tool_call_id = msgs[i].tool_calls[k].id}) = 1

\* C21: tool calls are dispatched one per step of the run, each dispatch
\* ending (its tool message appended, or the run over) before the next one
\* starts, and at every provider call each ToolCall of the Conversation has
\* exactly one tool_result message.
SequentialDispatch ==
    [][/\ llm_calls' = llm_calls + 1 => EveryCallAnswered(messages)
       /\ Len(dispatch_log') <= Len(dispatch_log) + 1
       /\ dispatch_log' # dispatch_log =>
             \/ pc' = "raised"
             \/ /\ Len(messages') = Len(messages) + 1
                /\ messages'[Len(messages')].role = "tool"
                /\ messages'[Len(messages')].tool_call_id =
                       dispatch_log'[Len(dispatch_log')]]_vars

SecondCallAfterBatch ==
    /\ llm_calls = 2
    /\ Len(dispatch_log) >= 2
    /\ Len(messages[3].tool_calls) >= 2
    /\ EveryCallAnswered(messages)
    /\ Len(request.messages) >= 4

AssistantCount ==
    Cardinality({j \in 1..Len(messages) : messages[j].role = "assistant"})

\* C22: the step counter counts assistant turns, not tool calls: between
\* steps it equals the number of assistant turns taken, inside a turn it is
\* one less, and a run that ends exhausted has taken max_steps turns
\* however many tool calls they batched.
StepPerTurn ==
    /\ pc = "loop" => step = AssistantCount
    /\ pc = "dispatch" => step = AssistantCount - 1
    /\ (pc = "done" /\ outcome = MaxStepsReached) =>
          /\ AssistantCount = max_steps
          /\ llm_calls = max_steps

ExhaustedAfterBatchedTurns ==
    /\ pc = "done"
    /\ outcome = MaxStepsReached
    /\ max_steps = 2
    /\ AssistantCount = 2
    /\ Len(dispatch_log) = 3

\* the positions of dispatch_log whose ToolCall names a registered tool
RegisteredDispatches ==
    {i \in 1..Len(dispatch_log) :
        \E k \in 1..Len(received) :
            /\ received[k].id = dispatch_log[i]
            /\ received[k].name \in ToolNames}

\* C26: every dispatch of a registered tool name has made exactly one
\* MCPClient call, and once the run is over every ToolCall received from
\* the provider has been dispatched exactly once.
DispatchedExactlyOnce ==
    /\ Len(mcp_log) = Cardinality(RegisteredDispatches)
    /\ pc \in {"done", "raised"} =>
          \A k \in 1..Len(received) :
              Cardinality({i \in 1..Len(dispatch_log) :
                              dispatch_log[i] = received[k].id}) = 1

\* C29: every assistant message the adapter returned is in the Conversation,
\* the final one included: when the run is over by a final answer, the last
\* message of the Conversation is that assistant message.
TerminalMessageAppended ==
    /\ message.role = "assistant" =>
          \E j \in 1..Len(messages) : messages[j] = message
    /\ (pc = "done" /\ FinalAnswerSeen) => messages[Len(messages)] = message

\* the names the dispatcher does not answer with its Unknown-tool error
HandledNames ==
    {n \in ToolNames \cup UnknownNames :
        LET args == IF n \in ToolNames THEN ArgsOver(ToolDef(n).properties)
                    ELSE EmptyDict
        IN dispatch_tool(n, args, "ok").value
              # ("error" :> StrLit("Unknown tool: " \o n))}

\* C30: every request of a run carries the same seven tool definitions, and
\* the names advertised in it are the names _dispatch_tool has a branch for:
\* no advertised name falls to the Unknown-tool branch, and no other name
\* is handled.
ToolSetClosed ==
    request # NoRequest =>
        LET advertised == {request.tools[i].name : i \in 1..Len(request.tools)}
        IN /\ Len(request.tools) = 7
           /\ advertised =
                 {"clone_repo", "find_files", "read_file", "write_file",
                  "create_branch", "commit_and_push", "create_pr"}
           /\ request.tools = tool_definitions
           /\ advertised = HandledNames

ToolsSentOnSecondCall ==
    /\ llm_calls = 2
    /\ Len(request.tools) = 7
    /\ Len(dispatch_log) = 1
    /\ exc = "APIError"

\* run_issue_task has returned or raised
Terminated == pc \in {"done", "raised"}

\* what is left of the run: the remaining iterations of the outer loop,
\* each worth one provider call and a batch of at most MaxBatch dispatches,
\* and the remaining dispatches of the current batch
Remaining ==
    CASE Terminated -> 0
      [] pc = "loop" -> (max_steps - step) * (MaxBatch + 1) + 1
      [] pc = "dispatch" ->
            (max_steps - step - 1) * (MaxBatch + 1) + 1
               + (Len(message.tool_calls) - idx + 1)

\* C34: when no provider call and no executor call hangs, run_issue_task
\* terminates (it returns or raises) for every max_steps and every sequence
\* of provider responses, and it does so because every step lowers a
\* natural number made of the iterations left of the max_steps-bounded loop
\* and the dispatches left of the current turn's finite batch.
RunTerminates ==
    /\ <>Terminated
    /\ [](Remaining >= 0)
    /\ [][Remaining' < Remaining]_vars

TerminatedAfterFullBatch ==
    /\ Terminated
    /\ Remaining = 0
    /\ step = 1
    /\ max_steps = 2
    /\ Len(dispatch_log) = 3

\* the tool messages that follow position a before the next assistant message
GroupSize(a) ==
    Cardinality({j \in (a + 1)..Len(messages) :
                    /\ messages[j].role = "tool"
                    /\ \A i \in (a + 1)..j : messages[i].role = "tool"})

\* C32: the Conversation is one system message, one user message, then
\* groups of one assistant message with k >= 1 ToolCalls followed by tool
\* messages only, at most k of them, and exactly k in every group once the
\* step is complete (the run is between steps or has returned); the first
\* message after the two initial ones is an assistant message, so no tool
\* message precedes the assistant message of its group.
ConversationShape ==
    /\ Len(messages) >= 2
    /\ messages[1].role = "system"
    /\ messages[2].role = "user"
    /\ \A j \in 3..Len(messages) : messages[j].role \in {"assistant", "tool"}
    /\ Len(messages) >= 3 => messages[3].role = "assistant"
    /\ \A a \in 3..Len(messages) :
          messages[a].role = "assistant" =>
             /\ Len(messages[a].tool_calls) >= 1
             /\ GroupSize(a) <= Len(messages[a].tool_calls)
             /\ \A n \in 1..GroupSize(a) :
                   messages[a + n].tool_call_id = messages[a].tool_calls[n].id
             /\ (pc \in {"loop", "done"} \/ a + GroupSize(a) < Len(messages)) =>
                   GroupSize(a) = Len(messages[a].tool_calls)

GroupOfThreeComplete ==
    /\ pc = "loop"
    /\ Len(messages) = 6
    /\ Len(messages[3].tool_calls) = 3
    /\ GroupSize(3) = 3

(***************************************************************************)
(* Properties of _dispatch_tool (checked under DispatchSpec).              *)
(***************************************************************************)
Dispatched == d_out.kind # "none"

\* C6: when the executor faults, _dispatch_tool does not raise: it returns
\* an error-tagged ToolResult.
DispatchAbsorbsExecutorFault ==
    (Dispatched /\ d_exec = "fault" /\ d_out.calls # <<>>) => ErrorTagged(d_out)

\* C7: calling _dispatch_tool without an argument the schema lists as
\* required returns an error-tagged ToolResult, raises nothing and calls no
\* executor; create_pr without the optional body is not a fault.
MissingRequiredIsErrorResult ==
    /\ (Dispatched /\ d_name \in ToolNames
        /\ ~(ToolDef(d_name).required \subseteq DOMAIN d_args)) =>
            ErrorTagged(d_out) /\ d_out.calls = <<>>
    /\ (Dispatched /\ d_name = "create_pr" /\ d_exec = "ok"
        /\ DOMAIN d_args = ToolDef(d_name).required) =>
            d_out.kind = "return" /\ ~ErrorTagged(d_out)

\* C8: for a name outside the seven registered tools _dispatch_tool returns
\* {"error": "Unknown tool: <name>"}, raises nothing and calls no executor,
\* whatever the arguments are.
UnknownToolSafe ==
    (Dispatched /\ d_name \notin ToolNames) =>
        /\ d_out.kind = "return"
        /\ d_out.value = ("error" :> StrLit("Unknown tool: " \o d_name))
        /\ d_out.calls = <<>>

UnknownToolWithArgs ==
    /\ Dispatched
    /\ d_name = "delete_repo"
    /\ d_args = ArgsOver({"workdir", "path"})
    /\ d_exec = "fault"
    /\ ErrorTagged(d_out)

ResultIsMapping ==
    (Dispatched /\ d_out.kind = "return") =>
        /\ d_out.lit = ""
        /\ ~IsNonDict(d_out.value)

ReadFileSucceeded ==
    /\ Dispatched
    /\ d_name = "read_file"
    /\ d_out.kind = "return"
    /\ d_out.value = ("text" :> StrLit("hello"))

(***************************************************************************)
(* Properties of _extract_summary_from_text (checked under ExtractSpec).   *)
(***************************************************************************)
Extracted == e_out.kind # "none"

\* C12: the extraction never raises: for every final text, the one whose
\* last non-blank line is a JSON number, string, list, true or null
\* included, it returns an Outcome.
ExtractNeverRaises == Extracted => e_out.kind = "return"

\* C13: when the last non-blank line is the text of a key/value object, the
\* Outcome holds every decoded key with its decoded value, the defaults
\* status = no_action, pr_number = null, pr_url = null for those of the
\* three keys the object lacks, and no other key.
DecodedOverridesDefaults ==
    (Extracted /\ e_in.kind = "object") =>
        /\ e_out.kind = "return"
        /\ e_out.value =
              [k \in DOMAIN e_in.obj \cup {"status", "pr_number", "pr_url"} |->
                  IF k \in DOMAIN e_in.obj THEN e_in.obj[k]
                  ELSE IF k = "status" THEN StrLit("no_action") ELSE NoneLit]

DecodedNullStatusKept ==
    /\ Extracted
    /\ e_in.obj = SumNullStatus
    /\ e_in.before # <<>>
    /\ e_in.after # <<>>
    /\ e_out.kind = "return"
    /\ e_out.value["status"] = NoneLit
    /\ DOMAIN e_out.value = {"status", "details", "pr_number", "pr_url"}

\* C14: when the last non-blank line is no JSON text, the Outcome is exactly
\* status = no_action, details = "Could not parse final JSON summary." and
\* raw_response = the whole final text, earlier and later lines included.
UnparsableKeepsRawText ==
    (Extracted /\ e_in.kind = "prose") =>
        /\ e_out.kind = "return"
        /\ e_out.value =
              ("status" :> StrLit("no_action"))
              @@ ("details" :> StrLit("Could not parse final JSON summary."))
              @@ ("raw_response" :> TextLit(e_in.text))

UnparsableAfterJsonLine ==
    /\ Extracted
    /\ e_in.kind = "prose"
    /\ e_in.before = <<"", JsonDumps(SumFull)>>
    /\ e_in.after = <<"   ", "">>
    /\ e_out.kind = "return"
    /\ e_out.value["raw_response"] = TextLit(e_in.text)

\* C15: when the final text is "", holds only whitespace, or is absent, the
\* Outcome is exactly status = no_action, details = "Empty final response
\* from LLM.".
EmptyFinalResponse ==
    (Extracted /\ e_in.kind = "blank") =>
        /\ e_out.kind = "return"
        /\ e_out.value =
              ("status" :> StrLit("no_action"))
              @@ ("details" :> StrLit("Empty final response from LLM."))

WhitespaceOnlyResponse ==
    /\ Extracted
    /\ e_in.kind = "blank"
    /\ e_in.text = <<"", "   ", "">>
    /\ e_out.kind = "return"
    /\ DOMAIN e_out.value = {"status", "details"}

(***************************************************************************)
(* Properties of _llm_chat (checked under AdapterSpec).                    *)
(***************************************************************************)
AdapterCalled == a_out.kind # "none"

\* the content blocks of a request's messages, in order
RECURSIVE RequestBlocks(_)
RequestBlocks(ms) ==
    IF ms = <<>> THEN <<>>
    ELSE Head(ms).content \o RequestBlocks(Tail(ms))

BlocksOfType(ms, type) ==
    SelectSeq(RequestBlocks(ms), LAMBDA block : block.type = type)

ToolMessages(msgs) == SelectSeq(msgs, LAMBDA msg : msg.role = "tool")

\* C17: every tool message of the Conversation is in the request exactly
\* once, as a tool_result block with the message's tool_call_id and content,
\* in Conversation order, whatever the id is, the empty string included;
\* none is sent as text.
ToolResultsRendered ==
    AdapterCalled =>
        LET results == BlocksOfType(a_out.request.messages, "tool_result")
            tools == ToolMessages(a_messages)
        IN /\ Len(results) = Len(tools)
           /\ \A i \in 1..Len(tools) :
                 /\ results[i].id = tools[i].tool_call_id
                 /\ results[i].content = tools[i].content

\* the ids of the ToolCalls of the assistant messages before position j
CallIdsBefore(msgs, j) ==
    UNION { {msgs[i].tool_calls[k].id : k \in 1..Len(msgs[i].tool_calls)} :
              i \in {n \in 1..(j - 1) : msgs[n].role = "assistant"} }

HasOrphan(msgs) ==
    \E j \in 1..Len(msgs) :
        /\ msgs[j].role = "tool"
        /\ msgs[j].tool_call_id \notin CallIdsBefore(msgs, j)

\* C18: a call of _llm_chat with a Conversation holding a tool message whose
\* id is the id of no ToolCall of an earlier assistant message fails, and
\* no request is sent to the provider.
OrphanToolResultRejected ==
    (AdapterCalled /\ HasOrphan(a_messages)) =>
        /\ a_out.kind = "raise"
        /\ a_out.request = NoRequest

IsToolResultEntry(entry) ==
    Len(entry.content) = 1 /\ entry.content[1].type = "tool_result"

SystemContents(msgs) ==
    {msgs[i].content : i \in {n \in 1..Len(msgs) : msgs[n].role = "system"}}

\* C27: no entry of the request's message list has the role system or
\* carries the content of a system message; what the request's system field
\* holds is the content of a system message; and the messages that are
\* neither system nor tool messages are the entries of the list that are not
\* tool results, each with its role and its content, in Conversation order.
SystemOnlyInSystemField ==
    AdapterCalled =>
        LET req == a_out.request
            plain == SelectSeq(a_messages,
                               LAMBDA msg : msg.role \notin {"system", "tool"})
            entries == SelectSeq(req.messages,
                                 LAMBDA entry : ~IsToolResultEntry(entry))
        IN /\ \A i \in 1..Len(req.messages) :
                 /\ req.messages[i].role # "system"
                 /\ \A b \in 1..Len(req.messages[i].content) :
                       req.messages[i].content[b].text \notin SystemContents(a_messages)
           /\ req.system \in SystemContents(a_messages)
           /\ Len(entries) = Len(plain)
           /\ \A i \in 1..Len(plain) :
                 /\ entries[i].role = plain[i].role
                 /\ plain[i].content # <<>> =>
                       /\ entries[i].content[1].type = "text"
                       /\ entries[i].content[1].text = plain[i].content

TwoSystemMessagesSent ==
    /\ a_out.kind = "return"
    /\ Len(a_messages) = 5
    /\ a_messages[4].role = "system"
    /\ a_messages[3].role = "assistant"
    /\ a_messages[5].role = "user"
    /\ a_out.request.system = <<"Be brief.">>
    /\ Len(a_out.request.messages) = 3

\* the text segments of a response, in order
TextSegments(content) ==
    LET blocks == SelectSeq(content, LAMBDA block : block.type = "text")
    IN [i \in 1..Len(blocks) |-> blocks[i].text]

\* strings (sequences of lines) put together with a line break between
\* consecutive ones: the lines of all of them
RECURSIVE NewlineJoined(_)
NewlineJoined(parts) ==
    IF parts = <<>> THEN <<>>
    ELSE parts[1] \o NewlineJoined(Tail(parts))

\* strings put together with nothing between them: the last line of one
\* runs into the first line of the next
RECURSIVE Concatenated(_)
Concatenated(parts) ==
    IF parts = <<>> THEN <<>>
    ELSE IF Len(parts) = 1 THEN parts[1]
    ELSE LET rest == Concatenated(Tail(parts))
             first == parts[1]
         IN SubSeq(first, 1, Len(first) - 1)
            \o <<first[Len(first)] \o rest[1]>> \o Tail(rest)

\* C28: the assistant text the adapter returns is the response's text
\* segments, in received order, joined with one line break between
\* consecutive segments; it is absent exactly when the response has no
\* text segment.
InboundTextJoined ==
    a_out.kind = "return" =>
        /\ a_out.message.content = NewlineJoined(TextSegments(a_out.response))
        /\ a_out.message.content = <<>> <=> TextSegments(a_out.response) = <<>>

\* C28 as stated: the assistant text is the segments concatenated, nothing
\* between them.
InboundTextConcatenated ==
    a_out.kind = "return" =>
        /\ a_out.message.content = Concatenated(TextSegments(a_out.response))
        /\ a_out.message.content = <<>> <=> TextSegments(a_out.response) = <<>>

TextAroundToolUse ==
    /\ a_out.kind = "return"
    /\ Len(a_out.response) = 3
    /\ a_out.response[2].type = "tool_use"
    /\ a_out.message.content = <<"Reading.", "Writing.">>
    /\ Len(a_out.message.tool_calls) = 1

\* C20 (checked under Spec): at every provider call, the tool_use blocks of
\* the request are the tool_use blocks received from the provider so far,
\* each with the id, the name and the argument data it was received with, in
\* the order they were received.
ToolCallRoundTrip ==
    [][llm_calls' = llm_calls + 1 =>
          BlocksOfType(request'.messages, "tool_use") = received]_vars

RoundTripOfTwoCalls ==
    /\ pc = "done"
    /\ llm_calls = 2
    /\ Len(received) = 2
    /\ received[1].name = "read_file"
    /\ received[1].input = ArgsOver({"workdir", "path"})
    /\ received[2].name = "delete_repo"
    /\ BlocksOfType(request.messages, "tool_use") = received

\* run r returned from the branch that handles a response without ToolCalls
ReturnedFinal(r) ==
    /\ runs[r].pc = "done"
    /\ runs[r].message.role = "assistant"
    /\ runs[r].message.tool_calls = <<>>

\* C33: the Outcome returned for a final answer is a function of the final
\* assistant text alone: two runs that returned with the same final text
\* returned equal Outcomes, whatever tools each dispatched and whatever the
\* tools answered.
OutcomeFromFinalText ==
    \A r1 \in Runs, r2 \in Runs :
       (/\ ReturnedFinal(r1)
        /\ ReturnedFinal(r2)
        /\ runs[r1].message.content = runs[r2].message.content) =>
          runs[r1].outcome = runs[r2].outcome

PrCreatedWithoutCreatePr ==
    /\ ReturnedFinal("a")
    /\ ReturnedFinal("b")
    /\ "create_pr" \in DOMAIN runs["a"].last_tool_results
    /\ runs["b"].dispatched = 0
    /\ runs["a"].message.content = runs["b"].message.content
    /\ Get(runs["b"].outcome, "status", NoneLit) = StrLit("pr_created")

(***************************************************************************)
(* Properties of the MCP server (checked under ServerSpec).                *)
(***************************************************************************)
\* the words of `part` stand next to each other in `text`
ContainsWords(text, part) ==
    \E i \in 0..(Len(text) - Len(part)) :
       SubSeq(text, i + 1, i + Len(part)) = part

\* the request answered by this step went to one of the two checked endpoints
CheckedRequestAnswered ==
    /\ served' = served + 1
    /\ s_req'.path \in {"/repo/clone", "/github/create_pr"}

\* C31: when ALLOWED_REPOS is non-empty and the URL of a /repo/clone or
\* /github/create_pr request is not in it, the answer is 403 with a detail
\* containing "not allowlisted", and no directory is made, nothing is cloned
\* and no pull request is opened; when ALLOWED_REPOS is empty no URL is
\* answered 403.
AllowlistEnforced ==
    [][ CheckedRequestAnswered =>
          /\ (ALLOWED_REPOS # {} /\ s_req'.url \notin ALLOWED_REPOS) =>
                /\ s_resp'.status = 403
                /\ ContainsWords(s_resp'.detail, <<"not", "allowlisted">>)
                /\ UNCHANGED <<workdirs, clones, commits, pushes,
                               github_posts, pulls>>
          /\ ALLOWED_REPOS = {} => s_resp'.status # 403 ]_vars

RejectedAfterAccepted ==
    /\ ALLOWED_REPOS # {}
    /\ Len(clones) = 1
    /\ s_req.path = "/github/create_pr"
    /\ s_req.url \notin ALLOWED_REPOS
    /\ s_resp.status = 403

\* C36: with DRY_RUN on, nothing is ever pushed, GitHub is never contacted
\* and no pull request is opened; a /git/commit_push that succeeds answers a
\* remote_ref that starts with "(dry-run) " and has committed what there was
\* to commit; /github/create_pr answers 403 for a URL off the allowlist and
\* pr_number 0 otherwise.
DryRunNeverPublishes ==
    DRY_RUN =>
       /\ pushes = <<>>
       /\ github_posts = <<>>
       /\ pulls = <<>>
       /\ (s_req.path = "/git/commit_push" /\ s_resp.status = 200) =>
             /\ Len(s_resp.remote_ref) > 1
             /\ s_resp.remote_ref[1] = "(dry-run)"
       /\ s_req.path = "/github/create_pr" =>
             IF ALLOWED_REPOS # {} /\ s_req.url \notin ALLOWED_REPOS
             THEN s_resp.status = 403 /\ s_resp.pr_number = <<>>
             ELSE s_resp.status = 200 /\ s_resp.pr_number = <<0>>

DryRunCommitThenPr ==
    /\ DRY_RUN
    /\ Len(commits) = 1
    /\ s_req.path = "/github/create_pr"
    /\ s_resp.pr_number = <<0>>

(***************************************************************************)
(* Properties of the ticket worker (checked under WorkerSpec).             *)
(***************************************************************************)
\* receipts whose pass through the loop body is over
Processed ==
    {r \in 1..w_received : r # w_msg.receipt \/ w_pc = "receive"}

\* C35: the worker calls delete_ticket for a received message if and only
\* if parse_ticket and run_issue_task both returned for it, whatever status
\* the returned Outcome has; a message for which either raised is never
\* passed to delete_ticket, so it is never deleted; and after the exception
\* the loop goes on to its next receive_ticket call.
DeleteIffProcessed ==
    /\ [](\A r \in Processed :
             r \in w_delete_calls <=> (r \in w_parsed /\ r \in w_ran))
    /\ [](\A r \in w_raised : r \notin w_delete_calls /\ r \notin w_deleted)
    /\ [](w_deleted \subseteq w_delete_calls)
    /\ (w_pc = "except") ~> (w_pc = "receive")

SecondTicketAfterFailure ==
    /\ w_raised = {1}
    /\ w_msg.receipt = 2
    /\ w_deleted = {2}
    /\ w_result.kind = "return"
    /\ Get(w_result.value, "status", NoneLit) = StrLit("max_steps_reached")

(***************************************************************************)
(* Properties of the project sync (checked under SyncSpec).                *)
(***************************************************************************)
\* the issues of the board whose column or Status value maps to a known
\* status other than done
IssuesToSend ==
    IF y_script = "classic"
    THEN UNION { {y_columns[i].cards[k].number :
                     k \in {j \in DOMAIN y_columns[i].cards :
                               y_columns[i].cards[j].kind = "issue"}} :
                 i \in {c \in DOMAIN y_columns :
                           /\ y_columns[c].name \in DOMAIN COLUMN_STATUS_MAP
                           /\ COLUMN_STATUS_MAP[y_columns[c].name] # "done"} }
    ELSE {y_items[k].number :
             k \in {j \in DOMAIN y_items :
                      /\ y_items[j].content = "issue"
                      /\ extract_status_from_item(y_items[j])
                            \notin {"done", "unknown"}}}

\* how many messages of the pass carry issue n
TimesSent(n) == Cardinality({k \in DOMAIN y_sent : y_sent[k].issue_number = n})

\* every number a card or an item of the board carries
BoardNumbers ==
    UNION {{y_columns[i].cards[k].number : k \in DOMAIN y_columns[i].cards} :
              i \in DOMAIN y_columns}
    \cup {y_items[k].number : k \in DOMAIN y_items}

\* C37: a sync pass sends an issue if and only if its column or Status
\* value maps to a known status other than done: at the end of the pass
\* every such issue has been sent exactly once, and nothing else (issues in
\* Done, unmapped or missing statuses, notes and drafts) has been sent.
EnqueuedIffOpenStatus ==
    y_pc = "done" =>
       /\ \A n \in BoardNumbers :
             TimesSent(n) = IF n \in IssuesToSend THEN 1 ELSE 0
       /\ \A k \in DOMAIN y_sent : y_sent[k].issue_number \in BoardNumbers

\* the same on the boards whose columns fit in one page
EnqueuedIffOpenStatusOnePage ==
    y_columns # FullColumnBoard => EnqueuedIffOpenStatus

(***************************************************************************)
(* Properties of concurrent runs (checked under ConcSpec).                 *)
(***************************************************************************)
\* the locals of run r after n steps taken with no other run around
RECURSIVE Alone(_, _, _)
Alone(r, sc, n) ==
    IF n = 0 THEN RunStart(r) ELSE RunStep(Alone(r, sc, n - 1), sc)

====
